---- MODULE Spec2Model ----
(***************************************************************************)
(* Model of the FTP upload engine (RustFTP/src/ftp_engine.rs): the         *)
(* ConnectionManager (error classification, backoff, failure counter and   *)
(* sticky server-limit flag) and the sync iteration with its upload pool.  *)
(*                                                                         *)
(* Text is modelled as a sequence of one-character strings so that         *)
(* to_lowercase and contains are computed, not assumed.  Durations are in  *)
(* whole seconds (Duration::from_secs); sync_interval, an f64 number of    *)
(* seconds in the code, is kept in milliseconds so that it stays integral. *)
(***************************************************************************)
EXTENDS Integers, Sequences, FiniteSets, Bags, TLC

Max(a, b) == IF a >= b THEN a ELSE b
Min(a, b) == IF a <= b THEN a ELSE b

(***************************************************************************)
(* Text helpers                                                            *)
(***************************************************************************)
UpperCase == <<"A","B","C","D","E","F","G","H","I","J","K","L","M","N","O","P","Q","R","S","T","U","V","W","X","Y","Z">>
LowerCase == <<"a","b","c","d","e","f","g","h","i","j","k","l","m","n","o","p","q","r","s","t","u","v","w","x","y","z">>

to_lowercase_char(c) ==
  IF \E i \in 1..26 : UpperCase[i] = c
  THEN LowerCase[CHOOSE i \in 1..26 : UpperCase[i] = c]
  ELSE c

to_lowercase(s) == [i \in 1..Len(s) |-> to_lowercase_char(s[i])]

contains(s, pat) ==
  \E i \in 1..(Len(s) - Len(pat) + 1) : SubSeq(s, i, i + Len(pat) - 1) = pat

(* The signal texts of is_server_rejection_error and is_network_error. *)
Sig_R1 == <<"t","o","o"," ","m","a","n","y"," ","c","o","n","n","e","c","t","i","o","n","s">>
Sig_R2 == <<"c","o","n","n","e","c","t","i","o","n"," ","l","i","m","i","t">>
Sig_R3 == <<"m","a","x"," ","c","o","n","n","e","c","t","i","o","n","s">>
Sig_R4 == <<"s","e","r","v","e","r"," ","f","u","l","l">>
Sig_R5 == <<"c","o","n","n","e","c","t","i","o","n"," ","r","e","f","u","s","e","d">>
Sig_R6 == <<"s","e","r","v","i","c","e"," ","u","n","a","v","a","i","l","a","b","l","e">>
Sig_R7 == <<"4","2","1">>
Sig_R8 == <<"5","3","0">>
Sig_R9 == <<"e","x","c","e","e","d","e","d">>
Sig_R10 == <<"b","u","s","y">>
Sig_N1 == <<"t","i","m","e","o","u","t">>
Sig_N2 == <<"c","o","n","n","e","c","t","i","o","n"," ","r","e","s","e","t">>
Sig_N3 == <<"n","e","t","w","o","r","k"," ","u","n","r","e","a","c","h","a","b","l","e">>
Sig_N4 == <<"c","o","n","n","e","c","t","i","o","n"," ","l","o","s","t">>
Sig_N5 == <<"b","r","o","k","e","n"," ","p","i","p","e">>
Sig_N6 == <<"c","o","n","n","e","c","t","i","o","n"," ","a","b","o","r","t","e","d">>

(* The prefixes the callers put before the client library's error text. *)
PrefixConnectionFailed == <<"C","o","n","n","e","c","t","i","o","n"," ","f","a","i","l","e","d",":"," ">>
PrefixLoginFailed == <<"L","o","g","i","n"," ","f","a","i","l","e","d",":"," ">>
PrefixFailedToConnect == <<"F","a","i","l","e","d"," ","t","o"," ","c","o","n","n","e","c","t",":"," ">>
PrefixFailedToLogin == <<"F","a","i","l","e","d"," ","t","o"," ","l","o","g","i","n",":"," ">>
PrefixDownloadFailed == <<"D","o","w","n","l","o","a","d"," ","f","a","i","l","e","d",":"," ">>

(* Error texts the server or the socket layer can produce (inputs). *)
Err421 == <<"4","2","1"," ","S","e","r","v","i","c","e"," ","n","o","t"," ","a","v","a","i","l","a","b","l","e">>
ErrRefused == <<"C","o","n","n","e","c","t","i","o","n"," ","R","e","f","u","s","e","d"," ","(","o","s"," ","e","r","r","o","r"," ","1","1","1",")">>
Err530 == <<"5","3","0"," ","L","o","g","i","n"," ","i","n","c","o","r","r","e","c","t">>
ErrTooMany == <<"T","o","o"," ","M","a","n","y"," ","C","o","n","n","e","c","t","i","o","n","s">>
ErrBusy == <<"S","e","r","v","e","r"," ","B","U","S","Y">>
ErrExceeded == <<"Q","u","o","t","a"," ","E","x","c","e","e","d","e","d">>
ErrTimedOut == <<"C","o","n","n","e","c","t","i","o","n"," ","t","i","m","e","d"," ","o","u","t">>
ErrTimeout == <<"T","I","M","E","O","U","T">>
ErrBrokenPipe == <<"B","r","o","k","e","n"," ","p","i","p","e"," ","(","o","s"," ","e","r","r","o","r"," ","3","2",")">>
ErrReset == <<"C","o","n","n","e","c","t","i","o","n"," ","r","e","s","e","t"," ","b","y"," ","p","e","e","r">>
Err421Timeout == <<"4","2","1"," ","T","i","m","e","o","u","t">>
ErrNoRoute == <<"N","o"," ","r","o","u","t","e"," ","t","o"," ","h","o","s","t">>

(***************************************************************************)
(* Bounds and inputs                                                       *)
(***************************************************************************)
MaxFailures == 9            \* cap on the consecutive-failure counter explored
NumThreads == 2             \* concurrent callers of the ConnectionManager

MaxEngineFailures == 3      \* cap on the failure counter in the engine runs
MaxIterations == 2          \* iterations of the main loop explored
upload_aggressiveness == 2  \* config.upload_aggressiveness
max_connection_retries == 3

CMThreads == 1..NumThreads
\* the files in the local source directory, by relative path
Files == { "a/b.txt", "c.txt" }
\* errors the engine's connections meet: a server rejection and a routing error
EngineErrors == { Err421, ErrNoRoute }
\* the outcome of an operation that succeeded: no error text
NoError == <<>>
AllPrefixes == { PrefixConnectionFailed, PrefixLoginFailed, PrefixFailedToConnect,
                 PrefixFailedToLogin, PrefixDownloadFailed }
EngineMessages == { p \o e : p \in AllPrefixes, e \in EngineErrors }
\* config.sync_interval of the engine runs, in milliseconds: one-shot and 0.3 s
EngineSyncIntervals == { 0, 300 }
\* config.stabilization_interval, in seconds: phase 1 skipped, or a sleep of 2 s
StabilizationIntervals == { 0, 2 }
\* the texts handed to record_failure: a caller's prefix and the library's error
ErrorMessages ==
  { PrefixConnectionFailed \o Err421,      PrefixConnectionFailed \o ErrRefused,
    PrefixLoginFailed \o Err530,           PrefixFailedToConnect \o ErrTooMany,
    PrefixFailedToConnect \o ErrBusy,      PrefixDownloadFailed \o ErrExceeded,
    PrefixFailedToConnect \o ErrTimedOut,  PrefixFailedToLogin \o ErrTimeout,
    PrefixDownloadFailed \o ErrBrokenPipe, PrefixDownloadFailed \o ErrReset,
    PrefixConnectionFailed \o Err421Timeout, PrefixConnectionFailed \o ErrNoRoute }
\* the two texts used where only the rejection / non-rejection split matters
MsgRejected == PrefixFailedToConnect \o Err421
MsgUnreachable == PrefixFailedToConnect \o ErrNoRoute
\* config.sync_interval in milliseconds: 3 s, just under 5 s, 5 s
SyncIntervals == { 3000, 4999, 5000 }
\* readings of the system clock (nanoseconds) used for the jitter; 3359 is
\* congruent to -1 modulo every jitter width that occurs, 0 gives no jitter
ClockSamples == { 0, 1, 3359 }

VARIABLES
  failed_attempts,          \* ConnectionManager.failed_attempts
  server_limit_detected,    \* ConnectionManager.server_limit_detected
  last_failure_time,        \* ConnectionManager.last_failure_time: "None" | "Some"
  sync_interval,            \* config.sync_interval, in milliseconds
  tpc,                      \* position of each ConnectionManager caller
  cmLog,                    \* history of the ConnectionManager calls (ghost)
  pc,                       \* position of the controller (run_ftp_with_args)
  iteration,                \* the main loop's iteration counter
  scanConn,                 \* the controller's FTP session `ftp` is open
  shutdown_flag,            \* the process-wide AtomicBool
  shutdown_file,            \* the sentinel <status_file>.shutdown exists
  srcFiles,                 \* files under local_source_path (outside FTPU-Sent)
  sentFiles,                \* files under local_source_path/FTPU-Sent
  pool_size,                \* max_parallel_connections of the running upload phase
  fpc,                      \* position of the worker task of each file
  attempt,                  \* connection_attempt of each worker task
  fconn,                    \* the worker task's FTP session is open
  files_processed,          \* the AtomicUsize of process_files
  result,                   \* what write_result last wrote
  flog,                     \* per file, this phase: connects, STORs, failed attempts, status (ghost)
  storOk,                   \* files a STOR of this upload phase has succeeded for (ghost)
  hist,                     \* rejections, uploads, failures, signals and cleanups so far (ghost)
  elapsed_ms,               \* elapsed_ms of the interval wait
  db,                       \* rows of the hash database: [config, file]
  monitor_warnings,         \* monitor_warning notifications sent in this iteration
  mon_doc,                  \* _monitored.json on the server
  mon_now,                  \* Utc::now(), in minutes
  peers,                    \* cleanup_monitor_file running in each instance that shares the file
  mon_log,                  \* the last monitor-file operation and what it did (ghost)
  stabilization_interval,   \* config.stabilization_interval, in seconds
  local_size,               \* metadata.len() of each file under local_source_path
  remote,                   \* the files in the remote destination
  initial_size,             \* initial_size of each worker task: the server's SIZE answer
  session_state,            \* the SessionState of process_files: total_files, total_bytes
  session_file,             \* the session report last written
  status,                   \* the status file's stage, and the stages written in this iteration
  status_rx,                \* worker status updates waiting in the channel, by stage
  warnings,                 \* "warning" notifications of the connect-failure branch
  SESSIONS,                 \* the registry: session_id -> engine thread of its SessionHandle, 0 = no entry
  shutdown_signal,          \* the AtomicBool of each SessionHandle, by engine thread
  thread_state,             \* each engine thread: "unborn" | "running" | "exited"
  ffi_log,                  \* the last FFI call, with the state before and after it (ghost)
  scan_tree,                \* the regular files under local_source_path, as paths from the root
  scan_files,               \* what scan_local_directory_for_files returned, as a bag of paths
  respect_file_paths,       \* config.respect_file_paths
  remote_files,             \* the remote destination: remote file name -> the local path STORed there
  put_log,                  \* the upload_file calls so far, in order (ghost)
  sent_paths                \* the local paths moved to FTPU-Sent

cmVars == <<failed_attempts, server_limit_detected, last_failure_time, sync_interval, tpc, cmLog>>
engVars == <<pc, iteration, scanConn, shutdown_flag, shutdown_file, srcFiles, sentFiles,
             pool_size, fpc, attempt, fconn, files_processed, result, flog, storOk, hist,
             elapsed_ms, db, monitor_warnings, stabilization_interval, local_size, remote, initial_size,
             session_state, session_file, status, status_rx, warnings>>
ioVars == <<stabilization_interval, local_size, remote, initial_size, session_state, session_file, status,
            status_rx, warnings>>
monVars == <<mon_doc, mon_now, mon_log, peers>>
ffiVars == <<SESSIONS, shutdown_signal, thread_state, ffi_log>>
scanVars == <<scan_tree, scan_files, respect_file_paths, remote_files, put_log, sent_paths>>
vars == <<failed_attempts, server_limit_detected, last_failure_time, sync_interval, tpc, cmLog,
          pc, iteration, scanConn, shutdown_flag, shutdown_file, srcFiles, sentFiles,
          pool_size, fpc, attempt, fconn, files_processed, result, flog, storOk, hist,
          elapsed_ms, db, monitor_warnings, stabilization_interval, local_size, remote, initial_size,
          session_state, session_file, status, status_rx, warnings, mon_doc, mon_now, mon_log, peers,
          SESSIONS, shutdown_signal, thread_state, ffi_log, scan_tree, scan_files,
          respect_file_paths, remote_files, put_log, sent_paths>>

(***************************************************************************)
(* ConnectionManager: pure parts of record_failure                         *)
(***************************************************************************)
\* variant: the text is matched as it is, without lowering its case
is_server_rejection_error_case_sensitive(error_msg) ==
  \E s \in { Sig_R1, Sig_R2, Sig_R3, Sig_R4, Sig_R5, Sig_R6, Sig_R7, Sig_R8, Sig_R9, Sig_R10 } :
     contains(error_msg, s)

is_server_rejection_error(error_msg) ==
  LET error_lower == to_lowercase(error_msg) IN
    \/ contains(error_lower, Sig_R1)
    \/ contains(error_lower, Sig_R2)
    \/ contains(error_lower, Sig_R3)
    \/ contains(error_lower, Sig_R4)
    \/ contains(error_lower, Sig_R5)
    \/ contains(error_lower, Sig_R6)
    \/ contains(error_lower, Sig_R7)
    \/ contains(error_lower, Sig_R8)
    \/ contains(error_lower, Sig_R9)
    \/ contains(error_lower, Sig_R10)

is_network_error(error_msg) ==
  LET error_lower == to_lowercase(error_msg) IN
    \/ contains(error_lower, Sig_N1)
    \/ contains(error_lower, Sig_N2)
    \/ contains(error_lower, Sig_N3)
    \/ contains(error_lower, Sig_N4)
    \/ contains(error_lower, Sig_N5)
    \/ contains(error_lower, Sig_N6)

\* sync_interval < 5.0
use_fast_retry(interval) == interval < 5000

base_delay(fast, is_server_rejection, is_network_issue) ==
  IF fast
  THEN IF is_server_rejection THEN 2 ELSE IF is_network_issue THEN 1 ELSE 1
  ELSE IF is_server_rejection THEN 30 ELSE IF is_network_issue THEN 5 ELSE 10

\* 1.5_f64.powi(k) as u64: the cast truncates towards zero
powi_1_5_as_u64(k) == (3 ^ k) \div (2 ^ k)

exponential_delay(fast, base, attempts) ==
  IF fast
  THEN base * Max(powi_1_5_as_u64(Min(attempts - 1, 3)), 1)
  ELSE base * (2 ^ Min(attempts - 1, 6))

\* variant: the jitter width is the whole delay, not a quarter of it
jitter_full_width(exp_delay) == Max(exp_delay, 1)

jitter(exp_delay) == Max(exp_delay \div 4, 1)

\* Duration::from_secs(sync_interval.max(5.0) as u64) or Duration::from_secs(300)
max_delay(fast, interval) ==
  IF fast THEN Max(interval, 5000) \div 1000 ELSE 300

\* the classification of every input text, computed once
Classification ==
  [m \in ErrorMessages \cup EngineMessages |->
     [rejection |-> is_server_rejection_error(m), network |-> is_network_error(m)]]

\* variant: delay.max(max_delay) where the code has delay.min(max_delay)
record_failure_delay_uncapped(attempts, is_server_rejection, is_network_issue, interval, nanos) ==
  LET fast == use_fast_retry(interval)
      base == base_delay(fast, is_server_rejection, is_network_issue)
      exp  == exponential_delay(fast, base, attempts)
      time_jitter == nanos % jitter(exp)
  IN  Max(exp + time_jitter, max_delay(fast, interval))

\* the Duration returned by record_failure, in seconds
record_failure_delay(attempts, is_server_rejection, is_network_issue, interval, nanos) ==
  LET fast == use_fast_retry(interval)
      base == base_delay(fast, is_server_rejection, is_network_issue)
      exp  == exponential_delay(fast, base, attempts)
      time_jitter == nanos % jitter(exp)
  IN  Min(exp + time_jitter, max_delay(fast, interval))

(***************************************************************************)
(* Reference classification used by the properties: a signal occurs in the *)
(* text at some position, letters compared without regard to case.         *)
(***************************************************************************)
SameLetter(a, b) ==
  a = b \/ \E k \in 1..26 : {a, b} = {UpperCase[k], LowerCase[k]}

OccursIgnoringCase(text, sig) ==
  \E i \in 1..Len(text) : /\ i + Len(sig) - 1 <= Len(text)
                          /\ \A j \in 1..Len(sig) : SameLetter(text[i + j - 1], sig[j])

RejectionSignals == { Sig_R1, Sig_R2, Sig_R3, Sig_R4, Sig_R5, Sig_R6, Sig_R7, Sig_R8, Sig_R9, Sig_R10 }
NetworkSignals == { Sig_N1, Sig_N2, Sig_N3, Sig_N4, Sig_N5, Sig_N6 }

ClassOfText(text) ==
  IF \E s \in RejectionSignals : OccursIgnoringCase(text, s) THEN "rejection"
  ELSE IF \E s \in NetworkSignals : OccursIgnoringCase(text, s) THEN "network"
  ELSE "generic"

ErrorClass == [m \in ErrorMessages \cup EngineMessages |-> ClassOfText(m)]

(***************************************************************************)
(* ConnectionManager: the calls, one action per atomic step                *)
(***************************************************************************)
NoCall == [n |-> 0, msg |-> <<>>, rejection |-> FALSE, base |-> 0, delay |-> 0, limit_before |-> FALSE]
NoPrev == [class |-> "none", delay |-> 0]

CMInit ==
  /\ failed_attempts = 0
  /\ server_limit_detected = FALSE
  /\ last_failure_time = "None"
  /\ tpc = [t \in CMThreads |-> "idle"]
  /\ cmLog = [n |-> 0, last |-> NoCall, prev |-> NoPrev, event |-> "none",
              clean |-> [t \in CMThreads |-> TRUE], interleaved |-> FALSE]

\* record_failure up to the point where the flag is stored: fetch_add on the
\* counter, last_failure_time, classification and the delay it will return
RecordFailureCount(t, error_msg, nanos) ==
  /\ tpc[t] = "idle"
  /\ failed_attempts < MaxFailures
  /\ LET attempts == failed_attempts + 1
         rej == Classification[error_msg].rejection
         net == Classification[error_msg].network
         d == record_failure_delay(attempts, rej, net, sync_interval, nanos)
     IN /\ failed_attempts' = attempts
        /\ last_failure_time' = "Some"
        /\ tpc' = [tpc EXCEPT ![t] = IF rej THEN "rf_store" ELSE "idle"]
        /\ cmLog' = [cmLog EXCEPT
                       !.n = @ + 1,
                       !.prev = IF cmLog.n = 0 THEN NoPrev
                                ELSE [class |-> ErrorClass[cmLog.last.msg], delay |-> cmLog.last.delay],
                       !.last = [n |-> cmLog.n + 1, msg |-> error_msg, rejection |-> rej,
                                 base |-> base_delay(use_fast_retry(sync_interval), rej, net),
                                 delay |-> d, limit_before |-> server_limit_detected],
                       !.event = "failure",
                       !.clean = [u \in CMThreads |-> IF tpc[u] = "rs_store" THEN FALSE ELSE @[u]],
                       !.interleaved = @ \/ \E u \in CMThreads \ {t} : tpc[u] # "idle"]
  /\ UNCHANGED <<server_limit_detected, sync_interval>>
  /\ UNCHANGED <<engVars, monVars, ffiVars, scanVars>>

\* record_failure: self.server_limit_detected.store(true)
RecordFailureStoreLimit(t) ==
  /\ tpc[t] = "rf_store"
  /\ server_limit_detected' = TRUE
  /\ tpc' = [tpc EXCEPT ![t] = "idle"]
  /\ cmLog' = [cmLog EXCEPT !.event = "failure_return"]
  /\ UNCHANGED <<failed_attempts, last_failure_time, sync_interval>>
  /\ UNCHANGED <<engVars, monVars, ffiVars, scanVars>>

\* variant: the counter is decremented where the code stores 0
RecordSuccessDecrementCount(t) ==
  /\ tpc[t] = "idle"
  /\ failed_attempts' = Max(failed_attempts - 1, 0)
  /\ tpc' = [tpc EXCEPT ![t] = "rs_store"]
  /\ cmLog' = [cmLog EXCEPT
                 !.n = 0, !.event = "success_call",
                 !.clean = [@ EXCEPT ![t] = \A u \in CMThreads : tpc[u] # "rf_store"],
                 !.interleaved = @ \/ \E u \in CMThreads \ {t} : tpc[u] # "idle"]
  /\ UNCHANGED <<server_limit_detected, last_failure_time, sync_interval>>
  /\ UNCHANGED <<engVars, monVars, ffiVars, scanVars>>

\* record_success: self.failed_attempts.store(0)
RecordSuccessResetCount(t) ==
  /\ tpc[t] = "idle"
  /\ failed_attempts' = 0
  /\ tpc' = [tpc EXCEPT ![t] = "rs_store"]
  /\ cmLog' = [cmLog EXCEPT
                 !.n = 0, !.event = "success_call",
                 !.clean = [@ EXCEPT ![t] = \A u \in CMThreads : tpc[u] # "rf_store"],
                 !.interleaved = @ \/ \E u \in CMThreads \ {t} : tpc[u] # "idle"]
  /\ UNCHANGED <<server_limit_detected, last_failure_time, sync_interval>>
  /\ UNCHANGED <<engVars, monVars, ffiVars, scanVars>>

\* variant: record_success leaves the server limit flag as it is
RecordSuccessKeepsLimit(t) ==
  /\ tpc[t] = "rs_store"
  /\ last_failure_time' = "None"
  /\ tpc' = [tpc EXCEPT ![t] = "idle"]
  /\ cmLog' = [cmLog EXCEPT !.event = IF cmLog.clean[t] THEN "success_return" ELSE "success_return_overlapped"]
  /\ UNCHANGED <<failed_attempts, server_limit_detected, sync_interval>>
  /\ UNCHANGED <<engVars, monVars, ffiVars, scanVars>>

\* record_success: self.server_limit_detected.store(false); last_failure_time = None
RecordSuccessClearLimit(t) ==
  /\ tpc[t] = "rs_store"
  /\ server_limit_detected' = FALSE
  /\ last_failure_time' = "None"
  /\ tpc' = [tpc EXCEPT ![t] = "idle"]
  /\ cmLog' = [cmLog EXCEPT !.event = IF cmLog.clean[t] THEN "success_return" ELSE "success_return_overlapped"]
  /\ UNCHANGED <<failed_attempts, sync_interval>>
  /\ UNCHANGED <<engVars, monVars, ffiVars, scanVars>>

NoFileLog == [conns |-> 0, stors |-> 0, fails |-> 0, outcome |-> "none", stabilized |-> 0,
              size |-> "none"]

\* the result file before the first write_result; `iteration` stands for the
\* timestamp of the write
NoResult == [success |-> FALSE, files_processed |-> 0, written |-> FALSE, iteration |-> 0]

\* metadata.len() of the files in the controller runs; the engine runs are
\* about connections and start from empty files
LocalSize == ("a/b.txt" :> 10) @@ ("c.txt" :> 7)
\* initial_size = None: SIZE gave no size
NoSize == -1
\* SessionState::new()
NewSessionState == [total_files |-> 0, total_bytes |-> 0]
\* the stages in the order the iteration is to write them
StageOrder == <<"Connecting", "Connected", "Scanning", "Preparing parallel processing",
                "Processing", "Finished">>
StageRank(stage) ==
  IF \E i \in 1..Len(StageOrder) : StageOrder[i] = stage
  THEN CHOOSE i \in 1..Len(StageOrder) : StageOrder[i] = stage
  ELSE 0
\* the writes to the status file in this iteration: the stages written,
\* whether each came after its predecessor in StageOrder, and whether the
\* receiver thread wrote after "Finished"
NoStatus == [seen |-> {}, in_order |-> TRUE, late |-> FALSE]
\* send_status on the controller's thread
send_status(st, stage) ==
  [seen |-> st.seen \cup {stage},
   in_order |-> (st.in_order /\ (StageRank(stage) > 1 => StageOrder[StageRank(stage) - 1] \in st.seen)),
   late |-> st.late]
\* the status channel: whether updates wait to be received, and whether one
\* of them is written with the stage "Processing"
NoUpdates == [pending |-> FALSE, processing |-> FALSE]
\* status_tx.send of updates with these stages ("FileComplete" is written as
\* "Processing" by the receiver)
status_tx_send(rx, stages) ==
  [pending |-> TRUE,
   processing |-> (rx.processing \/ \E i \in 1..Len(stages) : stages[i] \in {"Processing", "FileComplete"})]
\* the status receiver thread writes every update it finds in the channel
receive_status(st, rx) ==
  [(IF rx.processing THEN send_status(st, "Processing") ELSE st)
     EXCEPT !.late = (st.late \/ "Finished" \in st.seen)]
\* SessionState::add_file_upload
add_file_upload(state, bytes) ==
  [total_files |-> state.total_files + 1, total_bytes |-> state.total_bytes + bytes]
\* send_session_report
send_session_report(state) ==
  [written |-> TRUE, total_files |-> state.total_files, total_bytes |-> state.total_bytes]
NoWarnings == [sent |-> 0, run |-> 0, failed |-> FALSE]

\* all but the configuration before the first iteration
IoInit ==
  /\ remote = {}
  /\ initial_size = [f \in Files |-> NoSize]
  /\ session_state = NewSessionState
  /\ session_file = [written |-> FALSE, total_files |-> 0, total_bytes |-> 0]
  /\ status = NoStatus
  /\ status_rx = NoUpdates
  /\ warnings = NoWarnings

\* the history before the run
NoHist == [pending |-> FALSE, at_phase |-> FALSE, uploaded_earlier |-> {}, given_up |-> {},
           cleanups |-> 0, waits |-> 0, wait_signal |-> FALSE, signal_iteration |-> 0,
           sleeps_after_signal |-> 0, signal_at_start |-> FALSE, signalled_start |-> {}, candidates |-> {},
           uploads |-> 0, phase_bytes |-> 0, signal_in_stor |-> FALSE]

EngInit ==
  /\ pc = "start"
  /\ iteration = 0
  /\ scanConn = FALSE
  /\ shutdown_flag = FALSE
  /\ shutdown_file = FALSE
  /\ srcFiles = Files
  /\ sentFiles = {}
  /\ pool_size = 0
  /\ fpc = [f \in Files |-> "none"]
  /\ attempt = [f \in Files |-> 0]
  /\ fconn = [f \in Files |-> FALSE]
  /\ files_processed = 0
  /\ result = NoResult
  /\ flog = [f \in Files |-> NoFileLog]
  /\ storOk = {}
  /\ hist = NoHist
  /\ elapsed_ms = 0
  /\ db = {}
  /\ monitor_warnings = 0
  /\ stabilization_interval = 0
  /\ local_size = [f \in Files |-> 0]
  /\ IoInit

(***************************************************************************)
(* The monitor file _monitored.json                                        *)
(***************************************************************************)
MaxEntries == 3             \* entries of the document read from the server
StaleAfter == 5             \* chrono::Duration::minutes(5)
WriteTime == 100            \* Utc::now() of the operations, in minutes

\* get_hostname() and config.config_name of this instance, and those of peers
OwnHostname == "mac-1"
OwnProfile == "Studio"
OtherHostname == "mac-2"
OtherProfile == "Archive"
MonitorKeys == { <<OwnHostname, OwnProfile>>, <<OtherHostname, OwnProfile>>,
                 <<OwnHostname, OtherProfile>> }

\* mode texts found in entries and passed as current_mode
ModeDelete == <<"d","e","l","e","t","e">>
ModeDeleteUpper == <<"D","E","L","E","T","E">>
ModeKeep == <<"k","e","e","p">>
ModeKeepMixed == <<"K","e","e","p">>
ModeUpload == <<"u","p","l","o","a","d">>
EntryModes == { ModeDelete, ModeDeleteUpper, ModeKeep, ModeKeepMixed, ModeUpload }
CurrentModes == { ModeUpload, ModeKeepMixed, ModeDeleteUpper }

\* an RFC 3339 text: the wall-clock minute it shows and its UTC offset in
\* minutes, or a text that is no timestamp
Rfc3339(minute, offset) == [valid |-> TRUE, minute |-> minute, offset |-> offset]
NotATimestamp == [valid |-> FALSE, minute |-> 0, offset |-> 0]
\* chrono::DateTime::parse_from_rfc3339 followed by with_timezone(&Utc)
parse_from_rfc3339(text) ==
  IF text.valid THEN [ok |-> TRUE, utc |-> text.minute - text.offset] ELSE [ok |-> FALSE, utc |-> 0]
\* current_time.to_rfc3339()
to_rfc3339(utc) == Rfc3339(utc, 0)

\* last_seen texts: just inside the window, exactly at the threshold, showing
\* the write time in a zone one hour ahead (an hour old), and unparseable
LastSeenSamples == { Rfc3339(WriteTime - StaleAfter + 1, 0), Rfc3339(WriteTime - StaleAfter, 0),
                     Rfc3339(WriteTime, 60), NotATimestamp }

MonitorEntry(key, mode, last_seen) ==
  [hostname |-> key[1], profile_name |-> key[2], mode |-> mode, last_seen |-> last_seen]
ConflictEntries == { MonitorEntry(k, m, Rfc3339(WriteTime - 1, 0)) : k \in MonitorKeys, m \in EntryModes }
WriteEntries == { MonitorEntry(k, ModeUpload, t) : k \in MonitorKeys, t \in LastSeenSamples }
SeqsUpTo(S, n) == UNION { [1..k -> S] : k \in 0..n }
MonitorDocs == SeqsUpTo(ConflictEntries, MaxEntries) \cup SeqsUpTo(WriteEntries, MaxEntries)

\* the file on the server: missing, not valid JSON, or a document
AbsentDoc == [exists |-> FALSE, parses |-> FALSE, monitors |-> <<>>]
GarbageDoc == [exists |-> TRUE, parses |-> FALSE, monitors |-> <<>>]
ServerDoc(monitors) == [exists |-> TRUE, parses |-> TRUE, monitors |-> monitors]

NoMonLog == [op |-> "none", read |-> FALSE, input |-> <<>>, mode |-> <<>>, conflict |-> "none",
             result |-> "none", sent |-> "none", doc |-> <<>>, before |-> AbsentDoc,
             obtainable |-> FALSE, tmp_ok |-> FALSE]

\* variant: the file is retrieved whether or not the listing names it
read_monitor_file_unlisted(listed, retr_ok) ==
  IF retr_ok /\ mon_doc.exists /\ mon_doc.parses
  THEN [some |-> TRUE, monitors |-> mon_doc.monitors]
  ELSE [some |-> FALSE, monitors |-> <<>>]

\* read_monitor_file: None unless the name is in the listing, RETR works and
\* the payload parses
read_monitor_file(listed, retr_ok) ==
  IF listed /\ retr_ok /\ mon_doc.exists /\ mon_doc.parses
  THEN [some |-> TRUE, monitors |-> mon_doc.monitors]
  ELSE [some |-> FALSE, monitors |-> <<>>]

\* variant: no entry is taken for this instance's own
is_ours_never(m, current_hostname, current_profile) == FALSE

\* m.hostname == current_hostname && m.profile_name == current_profile
is_ours(m, current_hostname, current_profile) ==
  m.hostname = current_hostname /\ m.profile_name = current_profile

\* detect_monitor_conflicts: the conflict level, "none" for None
detect_monitor_conflicts(monitors, current_mode, current_hostname, current_profile) ==
  LET current_mode_lower == to_lowercase(current_mode)
      is_delete(m) == ~is_ours(m, current_hostname, current_profile) /\ to_lowercase(m.mode) = ModeDelete
      is_keep(m) == ~is_ours(m, current_hostname, current_profile) /\ to_lowercase(m.mode) = ModeKeep
      delete_monitors == SelectSeq(monitors, is_delete)
      keep_monitors == SelectSeq(monitors, is_keep)
  IN IF Len(delete_monitors) >= 2 THEN "critical"
     ELSE IF delete_monitors # <<>> /\ current_mode_lower = ModeKeep THEN "warning"
     ELSE IF current_mode_lower = ModeDelete /\ keep_monitors # <<>> THEN "warning"
     ELSE IF Len(keep_monitors) >= 1 /\ current_mode_lower = ModeKeep THEN "info"
     ELSE "none"

\* variant: the timestamp's wall-clock minute is compared, its offset ignored
is_fresh_wall_clock(entry, stale_threshold) ==
  entry.last_seen.valid /\ entry.last_seen.minute > stale_threshold

\* the retain test of write_monitor_file
is_fresh(entry, stale_threshold) ==
  LET last_seen == parse_from_rfc3339(entry.last_seen)
  IN last_seen.ok /\ last_seen.utc > stale_threshold

\* write_monitor_file, steps 2 and 3: the stale entries are dropped, then the
\* first entry with this instance's key is replaced or the entry is appended
updated_monitors(monitors, current_time) ==
  LET stale_threshold == current_time - StaleAfter
      fresh(e) == is_fresh(e, stale_threshold)
      retained == SelectSeq(monitors, fresh)
      our_entry == MonitorEntry(<<OwnHostname, OwnProfile>>, ModeUpload, to_rfc3339(current_time))
      ours == { i \in 1..Len(retained) : retained[i].hostname = OwnHostname
                                         /\ retained[i].profile_name = OwnProfile }
  IN IF ours # {}
     THEN [retained EXCEPT ![CHOOSE i \in ours : \A j \in ours : i <= j] = our_entry]
     ELSE Append(retained, our_entry)

\* Each run applies one operation to the document found on the server.
\* the detection is run on a document that was read
DetectConflicts(current_mode) ==
  /\ mon_log.op = "none"
  /\ mon_doc.exists /\ mon_doc.parses
  /\ mon_log' = [NoMonLog EXCEPT !.op = "detect", !.read = TRUE, !.input = mon_doc.monitors,
                                 !.mode = current_mode, !.before = mon_doc,
                                 !.conflict = detect_monitor_conflicts(mon_doc.monitors, current_mode,
                                                                       OwnHostname, OwnProfile)]
  /\ UNCHANGED <<mon_doc, mon_now, peers, cmVars, engVars, ffiVars, scanVars>>

\* write_monitor_file; local_ok: the temporary file could be written and
\* opened; put_ok: the STOR of _monitored.json worked
WriteMonitorFile(listed, retr_ok, local_ok, put_ok) ==
  LET existing == read_monitor_file(listed, retr_ok)
      monitors == updated_monitors(existing.monitors, mon_now)
  IN /\ mon_log.op = "none"
     /\ mon_doc' = IF local_ok /\ put_ok THEN ServerDoc(monitors) ELSE mon_doc
     /\ mon_log' = [NoMonLog EXCEPT !.op = "write", !.read = existing.some,
                                    !.input = existing.monitors, !.before = mon_doc,
                                    !.obtainable = listed /\ retr_ok /\ mon_doc.exists /\ mon_doc.parses,
                                    !.tmp_ok = local_ok,
                                    !.sent = IF local_ok THEN "put" ELSE "none",
                                    !.doc = IF local_ok THEN monitors ELSE <<>>,
                                    !.result = IF local_ok /\ put_ok THEN "Ok(true)" ELSE "Ok(false)"]
     /\ UNCHANGED <<mon_now, peers, cmVars, engVars, ffiVars, scanVars>>

\* variant: every entry of this host is removed, whatever its profile
cleanup_retain_other_hosts(e) == e.hostname # OwnHostname

\* the retain test of cleanup_monitor_file
cleanup_retain(e) == ~(e.hostname = OwnHostname /\ e.profile_name = OwnProfile)

\* cleanup_monitor_file; send_ok: the DELE or the STOR worked
CleanupMonitorFile(listed, retr_ok, local_ok, send_ok) ==
  LET existing == read_monitor_file(listed, retr_ok)
      remaining == SelectSeq(existing.monitors, cleanup_retain)
      log == [NoMonLog EXCEPT !.op = "cleanup", !.read = existing.some,
                              !.input = existing.monitors, !.before = mon_doc]
  IN /\ mon_log.op = "none"
     /\ IF ~existing.some \/ Len(remaining) = Len(existing.monitors)
        THEN /\ mon_log' = [log EXCEPT !.result = "Ok(true)"]
             /\ UNCHANGED mon_doc
        ELSE IF remaining = <<>>
        THEN /\ mon_log' = [log EXCEPT !.sent = "rm",
                                       !.result = IF send_ok THEN "Ok(true)" ELSE "Ok(false)"]
             /\ mon_doc' = IF send_ok THEN AbsentDoc ELSE mon_doc
        ELSE IF ~local_ok
        THEN /\ mon_log' = [log EXCEPT !.result = "Ok(false)"]
             /\ UNCHANGED mon_doc
        ELSE /\ mon_log' = [log EXCEPT !.sent = "put", !.doc = remaining,
                                       !.result = IF send_ok THEN "Ok(true)" ELSE "Ok(false)"]
             /\ mon_doc' = IF send_ok THEN ServerDoc(remaining) ELSE mon_doc
     /\ UNCHANGED <<mon_now, peers, cmVars, engVars, ffiVars, scanVars>>

\* Two instances share one _monitored.json: each is named by its hostname
\* and runs the same profile.
Instances == { OwnHostname, OtherHostname }
NoPeer == [pc |-> "idle", read |-> FALSE, copy |-> <<>>, stale |-> FALSE,
           sent |-> "none", result |-> "none"]
NoPeers == [i \in Instances |-> NoPeer]

\* the retain test of cleanup_monitor_file in instance i
peer_retain(i, e) == ~(e.hostname = i /\ e.profile_name = OwnProfile)

\* cleanup_monitor_file in instance i, up to the point where the document has
\* been read and this instance's entry taken out of the copy
PeerCleanupRead(i, listed, retr_ok) ==
  LET existing == read_monitor_file(listed, retr_ok)
      keep(e) == peer_retain(i, e)
      remaining == SelectSeq(existing.monitors, keep)
  IN /\ peers[i].pc = "idle"
     /\ IF ~existing.some \/ Len(remaining) = Len(existing.monitors)
        THEN peers' = [peers EXCEPT ![i] = [@ EXCEPT !.pc = "done", !.read = existing.some,
                                                      !.result = "Ok(true)"]]
        ELSE peers' = [peers EXCEPT ![i] = [@ EXCEPT !.pc = "read", !.read = TRUE,
                                                      !.copy = existing.monitors]]
     /\ UNCHANGED <<mon_doc, mon_now, mon_log, cmVars, engVars, ffiVars, scanVars>>

\* variant: the document is read again when it is about to be replaced
PeerCleanupSendRereads(i, local_ok, send_ok) ==
  LET keep(e) == peer_retain(i, e)
      remaining == SelectSeq(IF mon_doc.exists /\ mon_doc.parses THEN mon_doc.monitors
                             ELSE peers[i].copy, keep)
      rm_ok == send_ok /\ mon_doc.exists
      written == IF remaining = <<>> THEN rm_ok ELSE local_ok /\ send_ok
      others_stale == [j \in Instances |->
                         IF j # i /\ peers[j].pc = "read" /\ written
                         THEN [peers[j] EXCEPT !.stale = TRUE] ELSE peers[j]]
  IN /\ peers[i].pc = "read"
     /\ mon_doc' = IF ~written THEN mon_doc
                   ELSE IF remaining = <<>> THEN AbsentDoc ELSE ServerDoc(remaining)
     /\ peers' = [others_stale EXCEPT ![i] =
                    [@ EXCEPT !.pc = "done",
                              !.sent = IF remaining = <<>> THEN "rm"
                                       ELSE IF local_ok THEN "put" ELSE "none",
                              !.result = IF written THEN "Ok(true)" ELSE "Ok(false)"]]
     /\ UNCHANGED <<mon_now, mon_log, cmVars, engVars, ffiVars, scanVars>>

\* cleanup_monitor_file in instance i, from the copy it holds: the DELE when
\* the copy is empty, the temporary file and the STOR otherwise
PeerCleanupSend(i, local_ok, send_ok) ==
  LET keep(e) == peer_retain(i, e)
      remaining == SelectSeq(peers[i].copy, keep)
      rm_ok == send_ok /\ mon_doc.exists
      written == IF remaining = <<>> THEN rm_ok ELSE local_ok /\ send_ok
      others_stale == [j \in Instances |->
                         IF j # i /\ peers[j].pc = "read" /\ written
                         THEN [peers[j] EXCEPT !.stale = TRUE] ELSE peers[j]]
  IN /\ peers[i].pc = "read"
     /\ mon_doc' = IF ~written THEN mon_doc
                   ELSE IF remaining = <<>> THEN AbsentDoc ELSE ServerDoc(remaining)
     /\ peers' = [others_stale EXCEPT ![i] =
                    [@ EXCEPT !.pc = "done",
                              !.sent = IF remaining = <<>> THEN "rm"
                                       ELSE IF local_ok THEN "put" ELSE "none",
                              !.result = IF written THEN "Ok(true)" ELSE "Ok(false)"]]
     /\ UNCHANGED <<mon_now, mon_log, cmVars, engVars, ffiVars, scanVars>>

\* the monitor-file variables where no monitor-file operation runs
MonIdle ==
  /\ mon_doc = AbsentDoc
  /\ mon_now = WriteTime
  /\ mon_log = NoMonLog
  /\ peers = NoPeers

(***************************************************************************)
(* The FFI session registry: rust_ftp_start, rust_ftp_stop,                *)
(* rust_ftp_shutdown                                                       *)
(***************************************************************************)
MaxThreads == 3             \* engine threads spawned in a run
\* session ids handed to the FFI calls
SessionIds == { "session-7", "session-8" }
EngineThreads == 1..MaxThreads
NoEntry == 0

FfiState == [SESSIONS |-> SESSIONS, shutdown_signal |-> shutdown_signal,
             thread_state |-> thread_state]
NoFfiLog == [op |-> "none", id |-> "", ret |-> 0, thread |-> NoEntry,
             before |-> <<>>, after |-> <<>>]

FfiIdle ==
  /\ SESSIONS = [s \in SessionIds |-> NoEntry]
  /\ shutdown_signal = [t \in EngineThreads |-> FALSE]
  /\ thread_state = [t \in EngineThreads |-> "unborn"]
  /\ ffi_log = NoFfiLog

Spawned == Cardinality({ t \in EngineThreads : thread_state[t] # "unborn" })

\* variant: the flag of a handle that is replaced is set
rust_ftp_start_signals_replaced(id) ==
  /\ Spawned < MaxThreads
  /\ LET t == Spawned + 1
         old == SESSIONS[id]
         after == [SESSIONS |-> [SESSIONS EXCEPT ![id] = t],
                   shutdown_signal |-> [u \in EngineThreads |->
                                          IF u = t THEN FALSE
                                          ELSE IF u = old THEN TRUE ELSE shutdown_signal[u]],
                   thread_state |-> [thread_state EXCEPT ![t] = "running"]]
     IN /\ SESSIONS' = after.SESSIONS
        /\ shutdown_signal' = after.shutdown_signal
        /\ thread_state' = after.thread_state
        /\ ffi_log' = [op |-> "start", id |-> id, ret |-> 0, thread |-> t,
                       before |-> FfiState, after |-> after]
  /\ UNCHANGED <<cmVars, engVars, monVars, scanVars>>

\* rust_ftp_start: a new AtomicBool(false), thread::spawn of run_ftp_with_args,
\* sessions.insert(id, handle); an entry under the same id is replaced
rust_ftp_start(id) ==
  /\ Spawned < MaxThreads
  /\ LET t == Spawned + 1
         after == [SESSIONS |-> [SESSIONS EXCEPT ![id] = t],
                   shutdown_signal |-> [shutdown_signal EXCEPT ![t] = FALSE],
                   thread_state |-> [thread_state EXCEPT ![t] = "running"]]
     IN /\ SESSIONS' = after.SESSIONS
        /\ shutdown_signal' = after.shutdown_signal
        /\ thread_state' = after.thread_state
        /\ ffi_log' = [op |-> "start", id |-> id, ret |-> 0, thread |-> t,
                       before |-> FfiState, after |-> after]
  /\ UNCHANGED <<cmVars, engVars, monVars, scanVars>>

\* variant: the stop call joins the engine thread, as rust_ftp_shutdown does
rust_ftp_stop_joining(id) ==
  /\ LET t == SESSIONS[id]
         after == IF t # NoEntry
                  THEN [SESSIONS |-> [SESSIONS EXCEPT ![id] = NoEntry],
                        shutdown_signal |-> [shutdown_signal EXCEPT ![t] = TRUE],
                        thread_state |-> [thread_state EXCEPT ![t] = "exited"]]
                  ELSE FfiState
     IN /\ SESSIONS' = after.SESSIONS
        /\ shutdown_signal' = after.shutdown_signal
        /\ thread_state' = after.thread_state
        /\ ffi_log' = [op |-> "stop", id |-> id, ret |-> IF t # NoEntry THEN 0 ELSE -3,
                       thread |-> t, before |-> FfiState, after |-> after]
  /\ UNCHANGED <<cmVars, engVars, monVars, scanVars>>

\* rust_ftp_stop: sessions.remove(id); for an entry shutdown_signal.store(true),
\* drop(thread_handle) and 0; without an entry -3
rust_ftp_stop(id) ==
  /\ LET t == SESSIONS[id]
         after == IF t # NoEntry
                  THEN [SESSIONS |-> [SESSIONS EXCEPT ![id] = NoEntry],
                        shutdown_signal |-> [shutdown_signal EXCEPT ![t] = TRUE],
                        thread_state |-> thread_state]
                  ELSE FfiState
     IN /\ SESSIONS' = after.SESSIONS
        /\ shutdown_signal' = after.shutdown_signal
        /\ thread_state' = after.thread_state
        /\ ffi_log' = [op |-> "stop", id |-> id, ret |-> IF t # NoEntry THEN 0 ELSE -3,
                       thread |-> t, before |-> FfiState, after |-> after]
  /\ UNCHANGED <<cmVars, engVars, monVars, scanVars>>

\* rust_ftp_shutdown: sessions.drain(); every handle's flag is set and its
\* thread is joined, so the call returns when those threads have returned
rust_ftp_shutdown ==
  /\ LET held == { SESSIONS[s] : s \in SessionIds } \ { NoEntry }
         after == [SESSIONS |-> [s \in SessionIds |-> NoEntry],
                   shutdown_signal |-> [t \in EngineThreads |-> (t \in held \/ shutdown_signal[t])],
                   thread_state |-> [t \in EngineThreads |->
                                       IF t \in held THEN "exited" ELSE thread_state[t]]]
     IN /\ SESSIONS' = after.SESSIONS
        /\ shutdown_signal' = after.shutdown_signal
        /\ thread_state' = after.thread_state
        /\ ffi_log' = [op |-> "shutdown", id |-> "", ret |-> 0, thread |-> NoEntry,
                       before |-> FfiState, after |-> after]
  /\ UNCHANGED <<cmVars, engVars, monVars, scanVars>>

\* run_ftp_with_args returns: it saw its shutdown flag, or it left the loop on
\* its own (one-shot run, sentinel file, configuration error)
EngineThreadReturns(t, saw_flag) ==
  /\ thread_state[t] = "running"
  /\ saw_flag = shutdown_signal[t]
  /\ thread_state' = [thread_state EXCEPT ![t] = "exited"]
  /\ UNCHANGED <<cmVars, engVars, monVars, scanVars, SESSIONS, shutdown_signal, ffi_log>>

(***************************************************************************)
(* The local scanner: scan_local_directory_for_files                       *)
(***************************************************************************)
\* file and directory names under local_source_path
Name_b_txt == <<"b",".","t","x","t">>
Name_a == <<"a">>
Name_hidden == <<".","h","i","d","d","e","n">>
Name_git == <<".","g","i","t">>
Name_Thumbs == <<"T","h","u","m","b","s",".","d","b">>
Name_b_tmp == <<"b",".","t","m","p">>
Name_b_temp == <<"b",".","t","e","m","p">>
Name_office_lock == <<"~","$","b",".","t","x","t">>
Name_b_filepart == <<"b",".","f","i","l","e","p","a","r","t">>
Name_desktop_ini == <<"d","e","s","k","t","o","p",".","i","n","i">>
Name_FTPU_Sent == <<"F","T","P","U","-","S","e","n","t">>
\* the regular files that may exist under the root, each as the names from
\* the root down to the file
TreePaths ==
  { <<Name_b_txt>>, <<Name_a, Name_b_txt>>, <<Name_hidden>>, <<Name_git, Name_b_txt>>,
    <<Name_Thumbs>>, <<Name_b_tmp>>, <<Name_a, Name_b_temp>>, <<Name_office_lock>>,
    <<Name_a, Name_b_filepart>>, <<Name_desktop_ini>>,
    <<Name_FTPU_Sent, Name_b_txt>>, <<Name_a, Name_FTPU_Sent, Name_b_txt>> }

\* the local files of the upload_file calls: two names, each at the root and
\* in the subdirectory a
PutPaths == { <<Name_b_txt>>, <<Name_a, Name_b_txt>>, <<Name_b_tmp>>, <<Name_a, Name_b_tmp>> }
\* local_path.file_name()
file_name(local_path) == local_path[Len(local_path)]
\* the names a STOR can create under the remote destination
RemoteNames == PutPaths \cup { <<file_name(p)>> : p \in PutPaths }
NoFile == <<>>
PutIdle ==
  /\ respect_file_paths = FALSE
  /\ remote_files = [n \in RemoteNames |-> NoFile]
  /\ put_log = <<>>
  /\ sent_paths = {}

NotScanned == [done |-> FALSE, signalled |-> FALSE, files |-> EmptyBag]
ScanIdle ==
  /\ scan_tree = {}
  /\ scan_files = NotScanned
  /\ PutIdle

starts_with(s, pat) == Len(s) >= Len(pat) /\ SubSeq(s, 1, Len(pat)) = pat
ends_with(s, pat) == Len(s) >= Len(pat) /\ SubSeq(s, Len(s) - Len(pat) + 1, Len(s)) = pat

\* fs::read_dir(dir): the names directly under dir
read_dir(dir) ==
  { p[Len(dir) + 1] : p \in { q \in scan_tree : Len(q) > Len(dir) /\ SubSeq(q, 1, Len(dir)) = dir } }
is_dir(path) == \E q \in scan_tree : Len(q) > Len(path) /\ SubSeq(q, 1, Len(path)) = path
is_file(path) == path \in scan_tree

\* filename.starts_with('.') || filename == "FTPU-Sent"
skipped(filename) == starts_with(filename, <<".">>) \/ filename = Name_FTPU_Sent

\* scan_dir_recursive: every entry that is not skipped is descended into if
\* it is a directory and pushed, with its path from the root, if it is a file
RECURSIVE scan_dir_recursive(_)
scan_dir_recursive(dir) ==
  BagUnion({ IF skipped(filename) THEN EmptyBag
             ELSE IF is_dir(dir \o <<filename>>) THEN scan_dir_recursive(dir \o <<filename>>)
             ELSE IF is_file(dir \o <<filename>>) THEN SetToBag({ dir \o <<filename>> })
             ELSE EmptyBag : filename \in read_dir(dir) })

\* scan_local_directory_for_files: nothing under a shutdown signal, else the
\* recursive scan from the root
ScanDirectory(signalled) ==
  /\ ~scan_files.done
  /\ scan_files' = [done |-> TRUE, signalled |-> signalled,
                    files |-> IF signalled THEN EmptyBag ELSE scan_dir_recursive(<<>>)]
  /\ UNCHANGED <<cmVars, engVars, monVars, ffiVars, scan_tree>>
  /\ UNCHANGED <<respect_file_paths, remote_files, put_log, sent_paths>>

InitScan ==
  /\ CMInit
  /\ EngInit
  /\ MonIdle
  /\ FfiIdle
  /\ sync_interval = 0
  /\ scan_tree \in SUBSET TreePaths
  /\ scan_files = NotScanned
  /\ PutIdle

NextScan == \E signalled \in BOOLEAN : ScanDirectory(signalled)

SpecScan == InitScan /\ [][NextScan]_vars

\* variant: the remote name is the relative path whatever the setting
remote_filename_relative(filename, local_path, respect) == filename

\* upload_file: let remote_filename = if respect_file_paths { filename }
\* else { local_path.file_name() }
remote_filename(filename, local_path, respect) ==
  IF respect THEN filename ELSE <<file_name(local_path)>>

\* the worker's upload of one candidate: upload_file (the STOR creates or
\* replaces the remote file) and, after a STOR that worked, the move of
\* the local file to FTPU-Sent
UploadFile(relative_path, stor_ok, moved) ==
  LET stor_name == remote_filename(relative_path, relative_path, respect_file_paths)
  IN /\ scan_files.done
     /\ BagIn(relative_path, scan_files.files)
     /\ \A n \in 1..Len(put_log) : put_log[n].path # relative_path
     /\ remote_files' = IF stor_ok THEN [remote_files EXCEPT ![stor_name] = relative_path]
                        ELSE remote_files
     /\ sent_paths' = IF stor_ok /\ moved THEN sent_paths \cup {relative_path} ELSE sent_paths
     /\ put_log' = Append(put_log, [path |-> relative_path, remote |-> stor_name,
                                    result |-> IF stor_ok THEN "Ok" ELSE "Err"])
     /\ UNCHANGED <<cmVars, engVars, monVars, ffiVars, scan_tree, scan_files, respect_file_paths>>

\* the candidates of one scan are uploaded, in any order
InitPut ==
  /\ CMInit
  /\ EngInit
  /\ MonIdle
  /\ FfiIdle
  /\ sync_interval = 0
  /\ scan_tree \in SUBSET PutPaths
  /\ scan_files = [done |-> TRUE, signalled |-> FALSE, files |-> scan_dir_recursive(<<>>)]
  /\ respect_file_paths \in BOOLEAN
  /\ remote_files = [n \in RemoteNames |-> NoFile]
  /\ put_log = <<>>
  /\ sent_paths = {}

NextPut == \E p \in PutPaths, stor_ok, moved \in BOOLEAN : UploadFile(p, stor_ok, moved)

SpecPut == InitPut /\ [][NextPut]_vars

InitFFI ==
  /\ CMInit
  /\ EngInit
  /\ MonIdle
  /\ FfiIdle
  /\ ScanIdle
  /\ sync_interval = 0

NextFFI ==
  \/ \E id \in SessionIds : rust_ftp_start(id)
  \/ \E id \in SessionIds : rust_ftp_stop(id)
  \/ rust_ftp_shutdown
  \/ \E t \in EngineThreads, saw_flag \in BOOLEAN : EngineThreadReturns(t, saw_flag)

SpecFFI == InitFFI /\ [][NextFFI]_vars

InitMon ==
  /\ CMInit
  /\ EngInit
  /\ sync_interval = 0
  /\ mon_now = WriteTime
  /\ mon_log = NoMonLog
  /\ peers = NoPeers
  /\ mon_doc \in { AbsentDoc, GarbageDoc } \cup { ServerDoc(d) : d \in MonitorDocs }
  /\ FfiIdle
  /\ ScanIdle

NextMon ==
  \/ \E m \in CurrentModes : DetectConflicts(m)
  \/ \E listed, retr_ok, local_ok, put_ok \in BOOLEAN : WriteMonitorFile(listed, retr_ok, local_ok, put_ok)
  \/ \E listed, retr_ok, local_ok, send_ok \in BOOLEAN : CleanupMonitorFile(listed, retr_ok, local_ok, send_ok)

SpecMon == InitMon /\ [][NextMon]_vars

\* the documents two instances may find when they clean up: fresh entries
\* of the instances and of another profile
PeerDocs == SeqsUpTo({ MonitorEntry(k, ModeUpload, Rfc3339(WriteTime - 1, 0)) : k \in MonitorKeys },
                     MaxEntries)

InitPeers ==
  /\ CMInit
  /\ EngInit
  /\ sync_interval = 0
  /\ mon_now = WriteTime
  /\ mon_log = NoMonLog
  /\ peers = NoPeers
  /\ mon_doc \in { AbsentDoc, GarbageDoc } \cup { ServerDoc(d) : d \in PeerDocs }
  /\ FfiIdle
  /\ ScanIdle

\* each instance runs cleanup_monitor_file once; the two runs interleave
NextPeers ==
  \/ \E i \in Instances, listed, retr_ok \in BOOLEAN : PeerCleanupRead(i, listed, retr_ok)
  \/ \E i \in Instances, local_ok, send_ok \in BOOLEAN : PeerCleanupSend(i, local_ok, send_ok)

SpecPeers == InitPeers /\ [][NextPeers]_vars


InitCM ==
  /\ CMInit
  /\ EngInit
  /\ MonIdle
  /\ FfiIdle
  /\ ScanIdle
  /\ sync_interval \in SyncIntervals

\* one caller at a time, every error text and clock reading
NextCM ==
  \/ \E m \in ErrorMessages, c \in ClockSamples : RecordFailureCount(1, m, c)
  \/ RecordFailureStoreLimit(1)
  \/ RecordSuccessResetCount(1)
  \/ RecordSuccessClearLimit(1)

SpecCM == InitCM /\ [][NextCM]_vars

\* concurrent callers (the controller and the upload workers share one manager)
NextCMConc ==
  \/ \E t \in CMThreads, m \in {MsgRejected, MsgUnreachable} : RecordFailureCount(t, m, 0)
  \/ \E t \in CMThreads : RecordFailureStoreLimit(t)
  \/ \E t \in CMThreads : RecordSuccessResetCount(t)
  \/ \E t \in CMThreads : RecordSuccessClearLimit(t)

SpecCMConc == InitCM /\ [][NextCMConc]_vars

(***************************************************************************)
(* The engine: run_ftp_with_args, process_single_iteration, process_files  *)
(***************************************************************************)
Init ==
  /\ CMInit
  /\ EngInit
  /\ MonIdle
  /\ FfiIdle
  /\ ScanIdle
  /\ sync_interval \in EngineSyncIntervals

\* config.config_id and config.session_id
config_id == "config-1"
session_id == "session-7"
\* the entries of the legacy hash file
LegacyHashes == { "old.txt" }

\* db::migrate_from_hash_file: the entries of the file become rows under the key
migrate_from_hash_file(key, entries) == db \cup { [config |-> key, file |-> f] : f \in entries }
\* db::load_hashes_for_config: the files of the rows stored under the key
load_hashes_for_config(key) == { r.file : r \in { x \in db : x.config = key } }

\* run_ftp_with_args up to the loop: the config is read, the connection manager
\* is created, the database is initialised and, where that worked and a legacy
\* hash file exists, the file is migrated
Startup(db_ok, legacy_exists) ==
  /\ pc = "start"
  /\ db' = IF db_ok /\ legacy_exists THEN migrate_from_hash_file(session_id, LegacyHashes) ELSE db
  /\ pc' = "loop_top"
  /\ UNCHANGED <<cmVars, iteration, scanConn, shutdown_flag, shutdown_file, srcFiles, sentFiles,
                 pool_size, fpc, attempt, fconn, files_processed, result, flog, storOk, hist,
                 elapsed_ms, monitor_warnings, monVars, ffiVars, scanVars, ioVars>>

\* the literal comparison that guards the hash check of process_files
KeepMode == "upload" = "keep"
\* rows of the hash database for this config
LoadedHashes == load_hashes_for_config(config_id)
existing_hashes == IF KeepMode THEN LoadedHashes ELSE {}

Active(f) == fpc[f] \notin {"none", "queued", "done_ok", "done_err"}
Finished(f) == fpc[f] \in {"done_ok", "done_err"}

\* variant: connection_attempt > max_connection_retries
give_up_off_by_one(connection_attempt) == connection_attempt > max_connection_retries

\* connection_attempt >= max_connection_retries
give_up(connection_attempt) == connection_attempt >= max_connection_retries

\* break Err(..) or, after std::thread::sleep(retry_delay), the next attempt
AfterFailure(connection_attempt) == IF give_up(connection_attempt) THEN "done_err" ELSE "connect"

\* record_failure and get_failure_count on the controller's thread; no worker
\* runs then, so the two atomic operations are taken as one step
CtlRecordFailure(error_msg) ==
  /\ failed_attempts' = failed_attempts + 1
  /\ last_failure_time' = "Some"
  /\ server_limit_detected' = (Classification[error_msg].rejection \/ server_limit_detected)
  /\ hist' = [hist EXCEPT !.pending = (Classification[error_msg].rejection \/ @)]

\* variant: the loop does not look at the shutdown signals
LoopTopIgnoresSignal ==
  /\ pc = "loop_top"
  /\ IF FALSE
     THEN pc' = "cleanup" /\ UNCHANGED iteration
     ELSE /\ iteration < MaxIterations
          /\ iteration' = iteration + 1
          /\ pc' = "connect"
  /\ hist' = [hist EXCEPT !.given_up = {},
                          !.signal_at_start = IF iteration = 0 THEN shutdown_flag \/ shutdown_file
                                              ELSE @]
  /\ monitor_warnings' = 0
  /\ warnings' = [warnings EXCEPT !.sent = 0, !.failed = FALSE]
  /\ status' = NoStatus
  /\ UNCHANGED <<cmVars, scanConn, shutdown_flag, shutdown_file, srcFiles, sentFiles, pool_size,
                 fpc, attempt, fconn, files_processed, result, flog, storOk>>
  /\ UNCHANGED <<elapsed_ms, db, monVars, ffiVars, scanVars, stabilization_interval, local_size, remote, initial_size, session_state, session_file, status_rx>>

\* loop top: the two shutdown checks, then iteration += 1
LoopTop ==
  /\ pc = "loop_top"
  /\ IF shutdown_flag \/ shutdown_file
     THEN pc' = "cleanup" /\ UNCHANGED iteration
     ELSE /\ iteration < MaxIterations
          /\ iteration' = iteration + 1
          /\ pc' = "connect"
  /\ hist' = [hist EXCEPT !.given_up = {},
                          !.signal_at_start = IF iteration = 0 THEN shutdown_flag \/ shutdown_file
                                              ELSE @]
  /\ monitor_warnings' = 0
  /\ warnings' = [warnings EXCEPT !.sent = 0, !.failed = FALSE]
  /\ status' = NoStatus
  /\ UNCHANGED <<cmVars, scanConn, shutdown_flag, shutdown_file, srcFiles, sentFiles, pool_size,
                 fpc, attempt, fconn, files_processed, result, flog, storOk>>
  /\ UNCHANGED <<elapsed_ms, db, monVars, ffiVars, scanVars, stabilization_interval, local_size, remote, initial_size, session_state, session_file, status_rx>>

\* the "Connecting" status and FtpStream::connect of the scanning session; on
\* a failure record_failure, the "Error" status, the result and, from the
\* second counted failure on, a "warning" notification
ScanConnect(outcome) ==
  /\ pc = "connect"
  /\ UNCHANGED monitor_warnings
  /\ IF outcome = NoError
     THEN /\ scanConn' = TRUE
          /\ pc' = "login"
          /\ status' = send_status(status, "Connecting")
          /\ UNCHANGED warnings
          /\ UNCHANGED <<failed_attempts, last_failure_time, server_limit_detected, hist, result>>
     ELSE /\ failed_attempts < MaxEngineFailures
          /\ CtlRecordFailure(PrefixConnectionFailed \o outcome)
          /\ result' = [success |-> FALSE, files_processed |-> 0, written |-> TRUE, iteration |-> iteration]
          /\ pc' = "after_iter"
          /\ status' = send_status(send_status(status, "Connecting"), "Error")
          /\ warnings' = [sent |-> IF failed_attempts + 1 >= 2 THEN 1 ELSE 0,
                          run |-> warnings.run + 1, failed |-> TRUE]
          /\ UNCHANGED scanConn
  /\ UNCHANGED <<sync_interval, tpc, cmLog, iteration, shutdown_flag, shutdown_file, srcFiles,
                 sentFiles, pool_size, fpc, attempt, fconn, files_processed, flog, storOk>>
  /\ UNCHANGED <<elapsed_ms, db, monVars, ffiVars, scanVars, stabilization_interval, local_size, remote, initial_size, session_state, session_file, status_rx>>

\* send_status(.., "Connecting", ..)? fails because the status file cannot be
\* written: process_single_iteration returns Err before it connects, and the
\* main loop logs the error and goes on
IterationError ==
  /\ pc = "connect"
  /\ pc' = "after_iter"
  /\ UNCHANGED <<cmVars, iteration, scanConn, shutdown_flag, shutdown_file, srcFiles, sentFiles,
                 pool_size, fpc, attempt, fconn, files_processed, result, flog, storOk, hist,
                 elapsed_ms, db, monitor_warnings, monVars, ffiVars, scanVars, ioVars>>

\* ftp.login of the scanning session; on success record_success
ScanLogin(outcome) ==
  /\ pc = "login"
  /\ IF outcome = NoError
     THEN /\ failed_attempts' = 0
          /\ server_limit_detected' = FALSE
          /\ last_failure_time' = "None"
          /\ pc' = "scan"
          /\ status' = send_status(status, "Connected")
          /\ warnings' = [warnings EXCEPT !.run = 0]
          /\ UNCHANGED <<scanConn, hist, result>>
     ELSE /\ failed_attempts < MaxEngineFailures
          /\ CtlRecordFailure(PrefixLoginFailed \o outcome)
          /\ result' = [success |-> FALSE, files_processed |-> 0, written |-> TRUE, iteration |-> iteration]
          /\ scanConn' = FALSE
          /\ pc' = "after_iter"
          /\ status' = send_status(status, "Error")
          /\ warnings' = [warnings EXCEPT !.run = @ + 1]
  /\ UNCHANGED <<sync_interval, tpc, cmLog, iteration, shutdown_flag, shutdown_file, srcFiles,
                 sentFiles, pool_size, fpc, attempt, fconn, files_processed, flog, storOk>>
  /\ UNCHANGED <<elapsed_ms, db, monitor_warnings, monVars, ffiVars, scanVars, stabilization_interval, local_size, remote, initial_size, session_state, session_file, status_rx>>

\* should_reduce_connections and the choice of max_connections
max_connections ==
  IF server_limit_detected THEN Max(upload_aggressiveness \div 4, 1) ELSE upload_aggressiveness

\* variant: the scan descends into FTPU-Sent as into any other directory
ScanLocalIncludingSent ==
  /\ pc = "scan"
  /\ LET signalled == shutdown_flag \/ shutdown_file
         local_files == IF signalled THEN {} ELSE srcFiles \cup sentFiles
         scanned == IF signalled THEN status ELSE send_status(status, "Scanning")
     IN
       IF local_files = {}
       THEN /\ scanConn' = FALSE
            /\ result' = [success |-> TRUE, files_processed |-> 0, written |-> TRUE, iteration |-> iteration]
            /\ status' = send_status(scanned, "Complete")
            /\ pc' = "after_iter"
            /\ UNCHANGED <<pool_size, fpc, attempt, files_processed, flog, hist, initial_size,
                           session_state, status_rx>>
       ELSE /\ pool_size' = max_connections
            /\ session_state' = NewSessionState
            /\ status' = send_status(scanned, "Preparing parallel processing")
            /\ status_rx' = NoUpdates
            /\ fpc' = [f \in Files |-> IF f \notin local_files THEN "none"
                                       ELSE IF stabilization_interval > 0 THEN "unstable"
                                       ELSE "queued"]
            /\ attempt' = [f \in Files |-> 0]
            /\ initial_size' = [f \in Files |-> NoSize]
            /\ files_processed' = 0
            /\ flog' = [f \in Files |-> NoFileLog]
            /\ hist' = [hist EXCEPT !.at_phase = hist.pending, !.pending = FALSE, !.given_up = {},
                                    !.candidates = local_files, !.phase_bytes = 0]
            /\ pc' = IF stabilization_interval > 0 THEN "stabilize" ELSE "upload"
            /\ UNCHANGED <<scanConn, result>>
  /\ UNCHANGED <<cmVars, iteration, shutdown_flag, shutdown_file, srcFiles, sentFiles, fconn, storOk>>
  /\ UNCHANGED <<elapsed_ms, db, monitor_warnings, monVars, ffiVars, scanVars,
                 stabilization_interval, local_size, remote, session_file, warnings>>

\* scan_local_directory_for_files (no "Scanning" status under a shutdown
\* signal), then either the empty-scan return with the "Complete" status or
\* the start of process_files: a new SessionState, the "Preparing parallel
\* processing" status, the pool of max_connections threads, and phase 1 if
\* stabilization_interval > 0
ScanLocal ==
  /\ pc = "scan"
  /\ LET signalled == shutdown_flag \/ shutdown_file
         local_files == IF signalled THEN {} ELSE srcFiles
         scanned == IF signalled THEN status ELSE send_status(status, "Scanning")
     IN
       IF local_files = {}
       THEN /\ scanConn' = FALSE
            /\ result' = [success |-> TRUE, files_processed |-> 0, written |-> TRUE, iteration |-> iteration]
            /\ status' = send_status(scanned, "Complete")
            /\ pc' = "after_iter"
            /\ UNCHANGED <<pool_size, fpc, attempt, files_processed, flog, hist, initial_size,
                           session_state, status_rx>>
       ELSE /\ pool_size' = max_connections
            /\ session_state' = NewSessionState
            /\ status' = send_status(scanned, "Preparing parallel processing")
            /\ status_rx' = NoUpdates
            /\ fpc' = [f \in Files |-> IF f \notin local_files THEN "none"
                                       ELSE IF stabilization_interval > 0 THEN "unstable"
                                       ELSE "queued"]
            /\ attempt' = [f \in Files |-> 0]
            /\ initial_size' = [f \in Files |-> NoSize]
            /\ files_processed' = 0
            /\ flog' = [f \in Files |-> NoFileLog]
            /\ hist' = [hist EXCEPT !.at_phase = hist.pending, !.pending = FALSE, !.given_up = {},
                                    !.candidates = local_files, !.phase_bytes = 0]
            /\ pc' = IF stabilization_interval > 0 THEN "stabilize" ELSE "upload"
            /\ UNCHANGED <<scanConn, result>>
  /\ UNCHANGED <<cmVars, iteration, shutdown_flag, shutdown_file, srcFiles, sentFiles, fconn, storOk>>
  /\ UNCHANGED <<elapsed_ms, db, monitor_warnings, monVars, ffiVars, scanVars,
                 stabilization_interval, local_size, remote, session_file, warnings>>

\* phase 1: a pool thread takes a candidate and starts its sleep of
\* stabilization_interval seconds
StabilizeSleep(f) ==
  /\ pc = "stabilize"
  /\ fpc[f] = "unstable"
  /\ Cardinality({g \in Files : fpc[g] = "sleeping"}) < pool_size
  /\ fpc' = [fpc EXCEPT ![f] = "sleeping"]
  /\ UNCHANGED <<cmVars, pc, iteration, scanConn, shutdown_flag, shutdown_file, srcFiles, sentFiles,
                 pool_size, attempt, fconn, files_processed, result, flog, storOk, hist>>
  /\ UNCHANGED <<elapsed_ms, db, monitor_warnings, monVars, ffiVars, scanVars, ioVars>>

\* phase 1: the sleep is over and the closure returns Some(candidate)
StabilizeEmit(f) ==
  /\ pc = "stabilize"
  /\ fpc[f] = "sleeping"
  /\ fpc' = [fpc EXCEPT ![f] = "stable"]
  /\ flog' = [flog EXCEPT ![f].stabilized = @ + 1]
  /\ UNCHANGED <<cmVars, pc, iteration, scanConn, shutdown_flag, shutdown_file, srcFiles, sentFiles,
                 pool_size, attempt, fconn, files_processed, result, storOk, hist>>
  /\ UNCHANGED <<elapsed_ms, db, monitor_warnings, monVars, ffiVars, scanVars, ioVars>>

\* variant: phase 2 starts with all candidates as soon as one is stable
StabilizeCollectEarly ==
  /\ pc = "stabilize"
  /\ \E f \in Files : fpc[f] = "stable"
  /\ fpc' = [f \in Files |-> IF fpc[f] = "none" THEN "none" ELSE "queued"]
  /\ pc' = "upload"
  /\ UNCHANGED <<cmVars, iteration, scanConn, shutdown_flag, shutdown_file, srcFiles, sentFiles,
                 pool_size, attempt, fconn, files_processed, result, flog, storOk, hist>>
  /\ UNCHANGED <<elapsed_ms, db, monitor_warnings, monVars, ffiVars, scanVars, ioVars>>

\* phase 1: collect() returns once every closure has returned; the stable
\* files are the candidates of phase 2
StabilizeCollect ==
  /\ pc = "stabilize"
  /\ \A f \in Files : fpc[f] \in {"none", "stable"}
  /\ fpc' = [f \in Files |-> IF fpc[f] = "stable" THEN "queued" ELSE "none"]
  /\ pc' = "upload"
  /\ UNCHANGED <<cmVars, iteration, scanConn, shutdown_flag, shutdown_file, srcFiles, sentFiles,
                 pool_size, attempt, fconn, files_processed, result, flog, storOk, hist>>
  /\ UNCHANGED <<elapsed_ms, db, monitor_warnings, monVars, ffiVars, scanVars, ioVars>>

\* a pool thread takes the task of file f: the per-file shutdown check
WorkerStart(f) ==
  /\ pc = "upload"
  /\ fpc[f] = "queued"
  /\ Cardinality({g \in Files : Active(g)}) < pool_size
  /\ IF shutdown_flag /\ shutdown_file
     THEN /\ fpc' = [fpc EXCEPT ![f] = "done_err"]
          /\ UNCHANGED status_rx
     ELSE /\ fpc' = [fpc EXCEPT ![f] = "connect"]
          /\ status_rx' = status_tx_send(status_rx, <<"Processing">>)
  /\ hist' = [hist EXCEPT !.signalled_start = IF shutdown_flag \/ shutdown_file
                                               THEN @ \cup {f} ELSE @]
  /\ UNCHANGED <<cmVars, pc, iteration, scanConn, shutdown_flag, shutdown_file, srcFiles, sentFiles,
                 pool_size, attempt, fconn, files_processed, result, flog, storOk>>
  /\ UNCHANGED <<elapsed_ms, db, monitor_warnings, monVars, ffiVars, scanVars,
                 stabilization_interval, local_size, remote, initial_size, session_state, session_file, status, warnings>>

\* a worker's record_failure up to the store of the flag; without a rejection
\* the call returns, the session (if any) is closed and the retry decision follows
WorkerFailure(f, error_msg, att) ==
  /\ failed_attempts < MaxEngineFailures
  /\ failed_attempts' = failed_attempts + 1
  /\ last_failure_time' = "Some"
  /\ IF Classification[error_msg].rejection
     THEN /\ fpc' = [fpc EXCEPT ![f] = "rf_store"]
          /\ UNCHANGED fconn
     ELSE /\ fpc' = [fpc EXCEPT ![f] = AfterFailure(att)]
          /\ fconn' = [fconn EXCEPT ![f] = FALSE]

\* top of the retry loop: connection_attempt += 1, FtpStream::connect and, on
\* a session that opened, ftp.login; a login failure closes the session again
WorkerConnect(f, connect_outcome, login_outcome) ==
  /\ fpc[f] = "connect"
  /\ attempt' = [attempt EXCEPT ![f] = @ + 1]
  /\ flog' = [flog EXCEPT ![f].conns = @ + 1,
                          ![f].fails = IF connect_outcome = NoError /\ login_outcome = NoError
                                       THEN @ ELSE @ + 1]
  /\ IF connect_outcome # NoError
     THEN /\ WorkerFailure(f, PrefixFailedToConnect \o connect_outcome, attempt[f] + 1)
          /\ status_rx' = status_tx_send(status_rx, <<"Connection failed">>)
     ELSE IF login_outcome # NoError
     THEN /\ WorkerFailure(f, PrefixFailedToLogin \o login_outcome, attempt[f] + 1)
          /\ status_rx' = status_tx_send(status_rx, <<"Login failed">>)
     ELSE /\ fconn' = [fconn EXCEPT ![f] = TRUE]
          /\ fpc' = [fpc EXCEPT ![f] = "prepare"]
          /\ UNCHANGED <<failed_attempts, last_failure_time, status_rx>>
  /\ UNCHANGED <<server_limit_detected, sync_interval, tpc, cmLog, pc, iteration, scanConn,
                 shutdown_flag, shutdown_file, srcFiles, sentFiles, pool_size, files_processed,
                 result, storOk, hist>>
  /\ UNCHANGED <<elapsed_ms, db, monitor_warnings, monVars, ffiVars, scanVars,
                 stabilization_interval, local_size, remote, initial_size, session_state, session_file, status, warnings>>

\* record_failure: server_limit_detected.store(true); then ftp.quit() where a
\* session is open, and the retry decision
WorkerStoreLimit(f) ==
  /\ fpc[f] = "rf_store"
  /\ server_limit_detected' = TRUE
  /\ hist' = [hist EXCEPT !.pending = TRUE]
  /\ fconn' = [fconn EXCEPT ![f] = FALSE]
  /\ fpc' = [fpc EXCEPT ![f] = AfterFailure(attempt[f])]
  /\ UNCHANGED <<failed_attempts, last_failure_time, sync_interval, tpc, cmLog, pc, iteration,
                 scanConn, shutdown_flag, shutdown_file, srcFiles, sentFiles, pool_size, attempt,
                 files_processed, result, flog, storOk>>
  /\ UNCHANGED <<elapsed_ms, db, monitor_warnings, monVars, ffiVars, scanVars, ioVars>>

\* the three arms of `match ftp.size(filename)`: Ok(Some(size)) and Err(e) go on
\* to the upload, Ok(None) returns Ok(()) from the task
after_size_skip_on_error(reply) ==
  IF reply \in {"size_none", "size_err"} THEN "skip" ELSE "upload"

after_size(reply) ==
  IF reply = "size_none" THEN "skip" ELSE "upload"

\* what the worker's log says about the answer to SIZE (ghost)
size_answer(reply) ==
  IF reply = "size_some" THEN "numeric"
  ELSE IF reply = "size_err" THEN "failed"
  ELSE IF reply = "size_none" THEN "no such file"
  ELSE "none"

\* variant: a CWD that fails is followed by another attempt of the outer loop
WorkerPrepareRetriesCwd(f, reply) ==
  /\ fpc[f] = "prepare"
  /\ reply = "size_some" => f \in remote
  /\ reply = "size_err" => f \notin remote
  /\ initial_size' = [initial_size EXCEPT ![f] = IF reply = "size_some" THEN local_size[f] ELSE NoSize]
  /\ IF reply = "cwd_failed"
     THEN /\ fpc' = [fpc EXCEPT ![f] = "connect"]
          /\ fconn' = [fconn EXCEPT ![f] = FALSE]
          /\ flog' = [flog EXCEPT ![f].outcome = "Failed to change to directory",
                                  ![f].size = size_answer(reply)]
          /\ UNCHANGED files_processed
     ELSE IF after_size(reply) = "skip"
     THEN /\ fpc' = [fpc EXCEPT ![f] = "done_ok"]
          /\ fconn' = [fconn EXCEPT ![f] = FALSE]
          /\ flog' = [flog EXCEPT ![f].size = size_answer(reply)]
          /\ UNCHANGED files_processed
     ELSE IF KeepMode /\ f \in existing_hashes
     THEN /\ fpc' = [fpc EXCEPT ![f] = "done_ok"]
          /\ fconn' = [fconn EXCEPT ![f] = FALSE]
          /\ files_processed' = files_processed + 1
          /\ flog' = [flog EXCEPT ![f].outcome = "Skipped (unchanged)", ![f].size = size_answer(reply)]
     ELSE /\ fpc' = [fpc EXCEPT ![f] = "upload"]
          /\ flog' = [flog EXCEPT ![f].size = size_answer(reply)]
          /\ UNCHANGED <<fconn, files_processed>>
  /\ UNCHANGED <<cmVars, pc, iteration, scanConn, shutdown_flag, shutdown_file, srcFiles, sentFiles,
                 pool_size, attempt, result, storOk, hist>>
  /\ UNCHANGED <<elapsed_ms, db, monitor_warnings, monVars, ffiVars, scanVars,
                 stabilization_interval, local_size, remote, session_state, session_file, status, status_rx, warnings>>

\* ftp.cwd(remote_destination), TYPE I, ftp.size(filename) and the hash check.
\* The server answers SIZE with the size of a file it holds and with an error
\* for a file it does not hold.
\* A CWD failure returns Err from the task; SIZE answering "no such file"
\* returns Ok without upload; a size or a failed SIZE goes on to the upload
WorkerPrepare(f, reply) ==
  /\ fpc[f] = "prepare"
  /\ reply = "size_some" => f \in remote
  /\ reply = "size_err" => f \notin remote
  /\ initial_size' = [initial_size EXCEPT ![f] = IF reply = "size_some" THEN local_size[f] ELSE NoSize]
  /\ IF reply = "cwd_failed"
     THEN /\ fpc' = [fpc EXCEPT ![f] = "done_err"]
          /\ fconn' = [fconn EXCEPT ![f] = FALSE]
          /\ flog' = [flog EXCEPT ![f].outcome = "Failed to change to directory",
                                  ![f].size = size_answer(reply)]
          /\ UNCHANGED files_processed
     ELSE IF after_size(reply) = "skip"
     THEN /\ fpc' = [fpc EXCEPT ![f] = "done_ok"]
          /\ fconn' = [fconn EXCEPT ![f] = FALSE]
          /\ flog' = [flog EXCEPT ![f].size = size_answer(reply)]
          /\ UNCHANGED files_processed
     ELSE IF KeepMode /\ f \in existing_hashes
     THEN /\ fpc' = [fpc EXCEPT ![f] = "done_ok"]
          /\ fconn' = [fconn EXCEPT ![f] = FALSE]
          /\ files_processed' = files_processed + 1
          /\ flog' = [flog EXCEPT ![f].outcome = "Skipped (unchanged)", ![f].size = size_answer(reply)]
     ELSE /\ fpc' = [fpc EXCEPT ![f] = "upload"]
          /\ flog' = [flog EXCEPT ![f].size = size_answer(reply)]
          /\ UNCHANGED <<fconn, files_processed>>
  /\ UNCHANGED <<cmVars, pc, iteration, scanConn, shutdown_flag, shutdown_file, srcFiles, sentFiles,
                 pool_size, attempt, result, storOk, hist>>
  /\ UNCHANGED <<elapsed_ms, db, monitor_warnings, monVars, ffiVars, scanVars,
                 stabilization_interval, local_size, remote, session_state, session_file, status, status_rx, warnings>>

\* upload_file: TYPE, MKD of the parents, STOR, TYPE I.  `how` is "ok", or the
\* step that fails: "type" (before any MKD), "stor", "reset" (TYPE I after a
\* STOR that succeeded); a failure is handed to record_failure
WorkerUpload(f, how, err) ==
  /\ fpc[f] = "upload"
  /\ storOk' = IF how \in {"ok", "reset"} THEN storOk \cup {f} ELSE storOk
  /\ initial_size' = [initial_size EXCEPT ![f] = NoSize]
  /\ remote' = IF how \in {"ok", "reset"} THEN remote \cup {f} ELSE remote
  /\ IF how = "ok"
     THEN /\ fpc' = [fpc EXCEPT ![f] = "move"]
          /\ flog' = [flog EXCEPT ![f].stors = @ + 1, ![f].size = "none"]
          /\ status_rx' = status_tx_send(status_rx, <<"Uploaded", "Verified">>)
          /\ LET state == add_file_upload(session_state,
                                         IF initial_size[f] = NoSize THEN 0 ELSE initial_size[f])
             IN /\ session_state' = state
                /\ session_file' = IF state.total_files > 0 /\ state.total_files % 3 = 0
                                   THEN send_session_report(state) ELSE session_file
          /\ hist' = [hist EXCEPT !.uploads = @ + 1, !.phase_bytes = @ + local_size[f]]
          /\ UNCHANGED <<failed_attempts, last_failure_time, fconn>>
     ELSE /\ WorkerFailure(f, PrefixDownloadFailed \o err, attempt[f])
          /\ flog' = [flog EXCEPT ![f].stors = IF how = "type" THEN @ ELSE @ + 1,
                                  ![f].fails = @ + 1, ![f].size = "none"]
          /\ status_rx' = status_tx_send(status_rx, <<"Download failed">>)
          /\ UNCHANGED <<session_state, session_file, hist>>
  /\ UNCHANGED <<server_limit_detected, sync_interval, tpc, cmLog, pc, iteration, scanConn,
                 shutdown_flag, shutdown_file, srcFiles, sentFiles, pool_size, attempt,
                 files_processed, result>>
  /\ UNCHANGED <<elapsed_ms, db, monitor_warnings, monVars, ffiVars, scanVars,
                 stabilization_interval, local_size, status, warnings>>

\* variant: the file is copied to FTPU-Sent and the original is left in place
WorkerMoveByCopy(f, moved) ==
  /\ fpc[f] = "move"
  /\ sentFiles' = IF moved THEN sentFiles \cup {f} ELSE sentFiles
  /\ files_processed' = files_processed + 1
  /\ flog' = [flog EXCEPT ![f].outcome = "Complete"]
  /\ fpc' = [fpc EXCEPT ![f] = "rs_count"]
  /\ status_rx' = status_tx_send(status_rx, <<"FileComplete", "Complete">>)
  /\ UNCHANGED <<cmVars, pc, iteration, scanConn, shutdown_flag, shutdown_file, srcFiles, pool_size,
                 attempt, fconn, result, storOk, hist>>
  /\ UNCHANGED <<elapsed_ms, db, monitor_warnings, monVars, ffiVars, scanVars,
                 stabilization_interval, local_size, remote, initial_size, session_state, session_file, status, warnings>>

\* after upload_file returned Ok: move_to_sent_directory (fs::rename), the
\* Complete status and files_processed.fetch_add(1)
WorkerMove(f, moved) ==
  /\ fpc[f] = "move"
  /\ srcFiles' = IF moved THEN srcFiles \ {f} ELSE srcFiles
  /\ sentFiles' = IF moved THEN sentFiles \cup {f} ELSE sentFiles
  /\ files_processed' = files_processed + 1
  /\ flog' = [flog EXCEPT ![f].outcome = "Complete"]
  /\ fpc' = [fpc EXCEPT ![f] = "rs_count"]
  /\ status_rx' = status_tx_send(status_rx, <<"FileComplete", "Complete">>)
  /\ UNCHANGED <<cmVars, pc, iteration, scanConn, shutdown_flag, shutdown_file, pool_size,
                 attempt, fconn, result, storOk, hist>>
  /\ UNCHANGED <<elapsed_ms, db, monitor_warnings, monVars, ffiVars, scanVars,
                 stabilization_interval, local_size, remote, initial_size, session_state, session_file, status, warnings>>

\* record_success: failed_attempts.store(0)
WorkerSuccessResetCount(f) ==
  /\ fpc[f] = "rs_count"
  /\ failed_attempts' = 0
  /\ fpc' = [fpc EXCEPT ![f] = "rs_store"]
  /\ UNCHANGED <<server_limit_detected, last_failure_time, sync_interval, tpc, cmLog, pc, iteration,
                 scanConn, shutdown_flag, shutdown_file, srcFiles, sentFiles, pool_size, attempt,
                 fconn, files_processed, result, flog, storOk, hist>>
  /\ UNCHANGED <<elapsed_ms, db, monitor_warnings, monVars, ffiVars, scanVars, ioVars>>

\* record_success: server_limit_detected.store(false); then ftp.quit(), break Ok
WorkerSuccessClearLimit(f) ==
  /\ fpc[f] = "rs_store"
  /\ server_limit_detected' = FALSE
  /\ last_failure_time' = "None"
  /\ hist' = [hist EXCEPT !.pending = FALSE]
  /\ fconn' = [fconn EXCEPT ![f] = FALSE]
  /\ fpc' = [fpc EXCEPT ![f] = "done_ok"]
  /\ UNCHANGED <<failed_attempts, sync_interval, tpc, cmLog, pc, iteration, scanConn,
                 shutdown_flag, shutdown_file, srcFiles, sentFiles, pool_size, attempt,
                 files_processed, result, flog, storOk>>
  /\ UNCHANGED <<elapsed_ms, db, monitor_warnings, monVars, ffiVars, scanVars, ioVars>>

\* pool.install returns: results are counted, the scanning session is closed
\* and the iteration's result is written
FinishUpload ==
  /\ pc = "upload"
  /\ \A f \in Files : fpc[f] \in {"none", "done_ok", "done_err"}
  /\ scanConn' = FALSE
  /\ result' = [success |-> TRUE, written |-> TRUE, iteration |-> iteration,
                files_processed |-> Cardinality({f \in Files : fpc[f] = "done_ok"})]
  /\ hist' = [hist EXCEPT !.uploaded_earlier = @ \cup {f \in Files : flog[f].outcome = "Complete"},
                          !.at_phase = FALSE,
                          !.signalled_start = {}, !.phase_bytes = 0,
                          !.given_up = {f \in Files : fpc[f] = "done_err" /\ flog[f].fails = attempt[f]
                                                                        /\ attempt[f] > 0}]
  /\ fpc' = [f \in Files |-> "none"]
  /\ attempt' = [f \in Files |-> 0]
  /\ flog' = [f \in Files |-> NoFileLog]
  /\ files_processed' = 0
  /\ pool_size' = 0
  /\ storOk' = {}
  /\ status' = send_status(IF ~status_rx.pending THEN status
                           ELSE receive_status(status, status_rx), "Finished")
  /\ status_rx' = NoUpdates
  /\ session_state' = NewSessionState
  /\ session_file' = IF session_state.total_files > 0 THEN send_session_report(session_state)
                     ELSE session_file
  /\ pc' = "after_iter"
  /\ UNCHANGED <<cmVars, iteration, shutdown_flag, shutdown_file, srcFiles, sentFiles, fconn>>
  /\ UNCHANGED <<elapsed_ms, db, monitor_warnings, monVars, ffiVars, scanVars,
                 stabilization_interval, local_size, remote, initial_size, warnings>>

\* the status receiver thread: recv() returns while the pool is at work
StatusReceive ==
  /\ pc = "upload"
  /\ status_rx.pending
  /\ status' = receive_status(status, status_rx)
  /\ status_rx' = NoUpdates
  /\ UNCHANGED <<cmVars, pc, iteration, scanConn, shutdown_flag, shutdown_file, srcFiles, sentFiles,
                 pool_size, fpc, attempt, fconn, files_processed, result, flog, storOk, hist>>
  /\ UNCHANGED <<elapsed_ms, db, monitor_warnings, monVars, ffiVars, scanVars,
                 stabilization_interval, local_size, remote, initial_size, session_state, session_file, warnings>>

\* variant: a one-shot run exits only after an iteration that succeeded
AfterIterationUntilSuccess ==
  /\ pc = "after_iter"
  /\ pc' = IF sync_interval <= 0 THEN (IF result.success THEN "cleanup" ELSE "loop_top") ELSE "wait"
  /\ elapsed_ms' = 0
  /\ hist' = [hist EXCEPT !.waits = IF sync_interval <= 0 THEN @ ELSE 1]
  /\ UNCHANGED <<cmVars, iteration, scanConn, shutdown_flag, shutdown_file, srcFiles, sentFiles,
                 pool_size, fpc, attempt, fconn, files_processed, result, flog, storOk>>
  /\ UNCHANGED <<db, monitor_warnings, monVars, ffiVars, scanVars, ioVars>>

\* after the iteration: one-shot exit or the interval wait
AfterIteration ==
  /\ pc = "after_iter"
  /\ pc' = IF sync_interval <= 0 THEN "cleanup" ELSE "wait"
  /\ elapsed_ms' = 0
  /\ hist' = [hist EXCEPT !.waits = IF sync_interval <= 0 THEN @ ELSE 1]
  /\ UNCHANGED <<cmVars, iteration, scanConn, shutdown_flag, shutdown_file, srcFiles, sentFiles,
                 pool_size, fpc, attempt, fconn, files_processed, result, flog, storOk>>
  /\ UNCHANGED <<db, monitor_warnings, monVars, ffiVars, scanVars, ioVars>>

\* wait_ms = (config.sync_interval * 1000.0) as u64; sync_interval is held in
\* milliseconds here
wait_ms == sync_interval

\* variant: the wait loop does not look at the sentinel file
WaitCheckFileSkipped ==
  /\ pc = "wait_file"
  /\ pc' = "sleep"
  /\ hist' = [hist EXCEPT !.sleeps_after_signal = IF hist.wait_signal THEN @ + 1 ELSE @]
  /\ UNCHANGED <<cmVars, iteration, scanConn, shutdown_flag, shutdown_file, srcFiles, sentFiles,
                 pool_size, fpc, attempt, fconn, files_processed, result, flog, storOk,
                 elapsed_ms, db, monitor_warnings, monVars, ffiVars, scanVars, ioVars>>

\* variant: a flag seen in the wait loop cleans up and breaks out of the loop
WaitCheckFlagBreaks ==
  /\ pc = "wait"
  /\ IF elapsed_ms >= wait_ms
     THEN pc' = "after_wait" /\ UNCHANGED hist
     ELSE IF shutdown_flag
     THEN pc' = "cleanup" /\ hist' = [hist EXCEPT !.cleanups = @ + 1]
     ELSE pc' = "wait_file" /\ UNCHANGED hist
  /\ UNCHANGED <<cmVars, iteration, scanConn, shutdown_flag, shutdown_file, srcFiles, sentFiles,
                 pool_size, fpc, attempt, fconn, files_processed, result, flog, storOk,
                 elapsed_ms, db, monitor_warnings, monVars, ffiVars, scanVars, ioVars>>

\* the wait loop's condition and its look at the shutdown flag; a flag that is
\* set makes the controller call cleanup_all_monitor_files and return
WaitCheckFlag ==
  /\ pc = "wait"
  /\ IF elapsed_ms >= wait_ms
     THEN pc' = "after_wait" /\ UNCHANGED hist
     ELSE IF shutdown_flag
     THEN pc' = "exited" /\ hist' = [hist EXCEPT !.cleanups = @ + 1]
     ELSE pc' = "wait_file" /\ UNCHANGED hist
  /\ UNCHANGED <<cmVars, iteration, scanConn, shutdown_flag, shutdown_file, srcFiles, sentFiles,
                 pool_size, fpc, attempt, fconn, files_processed, result, flog, storOk,
                 elapsed_ms, db, monitor_warnings, monVars, ffiVars, scanVars, ioVars>>

\* the wait loop's look at the sentinel file; a sentinel that exists makes the
\* controller call cleanup_all_monitor_files and return, otherwise the sleep
\* of one quantum starts
WaitCheckFile ==
  /\ pc = "wait_file"
  /\ IF shutdown_file
     THEN pc' = "exited" /\ hist' = [hist EXCEPT !.cleanups = @ + 1]
     ELSE /\ pc' = "sleep"
          /\ hist' = [hist EXCEPT !.sleeps_after_signal =
                                    IF hist.wait_signal THEN @ + 1 ELSE @]
  /\ UNCHANGED <<cmVars, iteration, scanConn, shutdown_flag, shutdown_file, srcFiles, sentFiles,
                 pool_size, fpc, attempt, fconn, files_processed, result, flog, storOk,
                 elapsed_ms, db, monitor_warnings, monVars, ffiVars, scanVars, ioVars>>

\* std::thread::sleep of 100 ms has passed; elapsed_ms += 100
WaitSleep ==
  /\ pc = "sleep"
  /\ elapsed_ms' = elapsed_ms + 100
  /\ pc' = "wait"
  /\ UNCHANGED <<cmVars, iteration, scanConn, shutdown_flag, shutdown_file, srcFiles, sentFiles,
                 pool_size, fpc, attempt, fconn, files_processed, result, flog, storOk, hist,
                 db, monitor_warnings, monVars, ffiVars, scanVars, ioVars>>

\* the flag is looked at once more after the wait
AfterWait ==
  /\ pc = "after_wait"
  /\ pc' = IF shutdown_flag THEN "cleanup" ELSE "loop_top"
  /\ UNCHANGED <<cmVars, iteration, scanConn, shutdown_flag, shutdown_file, srcFiles, sentFiles,
                 pool_size, fpc, attempt, fconn, files_processed, result, flog, storOk, hist>>
  /\ UNCHANGED <<elapsed_ms, db, monitor_warnings, monVars, ffiVars, scanVars, ioVars>>

\* after the loop: cleanup_all_monitor_files, then return
Cleanup ==
  /\ pc = "cleanup"
  /\ pc' = "exited"
  /\ hist' = [hist EXCEPT !.cleanups = @ + 1]
  /\ UNCHANGED <<cmVars, iteration, scanConn, shutdown_flag, shutdown_file, srcFiles, sentFiles,
                 pool_size, fpc, attempt, fconn, files_processed, result, flog, storOk>>
  /\ UNCHANGED <<elapsed_ms, db, monitor_warnings, monVars, ffiVars, scanVars, ioVars>>

Next ==
  \/ Startup(TRUE, FALSE)
  \/ LoopTop
  \/ \E o \in {NoError} \cup EngineErrors : ScanConnect(o)
  \/ \E o \in {NoError} \cup EngineErrors : ScanLogin(o)
  \/ ScanLocal
  \/ \E f \in Files : WorkerStart(f)
  \/ \E f \in Files, c, l \in {NoError} \cup EngineErrors : WorkerConnect(f, c, l)
  \/ \E f \in Files : WorkerStoreLimit(f)
  \/ \E f \in Files, r \in {"cwd_failed", "size_none", "size_some", "size_err"} : WorkerPrepare(f, r)
  \/ \E f \in Files, how \in {"ok", "type", "stor", "reset"}, e \in EngineErrors : WorkerUpload(f, how, e)
  \/ \E f \in Files, moved \in BOOLEAN : WorkerMove(f, moved)
  \/ \E f \in Files : WorkerSuccessResetCount(f)
  \/ \E f \in Files : WorkerSuccessClearLimit(f)
  \/ FinishUpload
  \/ AfterIteration
  \/ WaitCheckFlag
  \/ WaitCheckFile
  \/ WaitSleep
  \/ AfterWait
  \/ Cleanup

Spec == Init /\ [][Next]_vars

\* ---------------------------------------------------------------------------
\* The controller under shutdown signals

\* positions of the controller inside the interval wait
WaitPositions == { "wait", "wait_file", "sleep" }

\* what a signal that arrives now adds to the history
SignalSeen ==
  IF pc \in WaitPositions /\ ~hist.wait_signal
  THEN [hist EXCEPT !.wait_signal = TRUE, !.signal_iteration = iteration]
  ELSE hist

\* rust_ftp_stop, rust_ftp_shutdown: shutdown_signal.store(true)
SetShutdownFlag ==
  /\ pc # "exited"
  /\ ~shutdown_flag
  /\ shutdown_flag' = TRUE
  /\ hist' = [SignalSeen EXCEPT !.signal_in_stor = \E f \in Files : fpc[f] = "upload"]
  /\ UNCHANGED <<cmVars, pc, iteration, scanConn, shutdown_file, srcFiles, sentFiles, pool_size,
                 fpc, attempt, fconn, files_processed, result, flog, storOk,
                 elapsed_ms, db, monitor_warnings, monVars, ffiVars, scanVars, ioVars>>

\* the application creates the sentinel <status_file>.shutdown
CreateShutdownFile ==
  /\ pc # "exited"
  /\ ~shutdown_file
  /\ shutdown_file' = TRUE
  /\ hist' = SignalSeen
  /\ UNCHANGED <<cmVars, pc, iteration, scanConn, shutdown_flag, srcFiles, sentFiles, pool_size,
                 fpc, attempt, fconn, files_processed, result, flog, storOk,
                 elapsed_ms, db, monitor_warnings, monVars, ffiVars, scanVars, ioVars>>

\* the sentinel may be left over from an earlier run
InitCtl ==
  /\ CMInit
  /\ pc = "start"
  /\ iteration = 0
  /\ scanConn = FALSE
  /\ shutdown_flag = FALSE
  /\ shutdown_file \in BOOLEAN
  /\ srcFiles = Files
  /\ sentFiles = {}
  /\ pool_size = 0
  /\ fpc = [f \in Files |-> "none"]
  /\ attempt = [f \in Files |-> 0]
  /\ fconn = [f \in Files |-> FALSE]
  /\ files_processed = 0
  /\ result = NoResult
  /\ flog = [f \in Files |-> NoFileLog]
  /\ storOk = {}
  /\ hist = NoHist
  /\ elapsed_ms = 0
  /\ db = {}
  /\ monitor_warnings = 0
  /\ stabilization_interval \in StabilizationIntervals
  /\ local_size = LocalSize
  /\ IoInit
  /\ MonIdle
  /\ FfiIdle
  /\ ScanIdle
  /\ sync_interval \in EngineSyncIntervals

\* the server accepts every worker session and upload; the scanning session
\* may fail, and so may the write of the status file; the signals arrive at
\* any moment
NextCtl ==
  \/ \E d, l \in BOOLEAN : Startup(d, l)
  \/ LoopTop
  \/ \E o \in {NoError} \cup EngineErrors : ScanConnect(o)
  \/ \E o \in {NoError} \cup EngineErrors : ScanLogin(o)
  \/ ScanLocal
  \/ \E f \in Files : WorkerStart(f)
  \/ \E f \in Files : WorkerConnect(f, NoError, NoError)
  \/ \E f \in Files, r \in {"size_some", "size_err"} : WorkerPrepare(f, r)
  \/ \E f \in Files : WorkerUpload(f, "ok", NoError)
  \/ \E f \in Files, moved \in BOOLEAN : WorkerMove(f, moved)
  \/ \E f \in Files : WorkerSuccessResetCount(f)
  \/ \E f \in Files : WorkerSuccessClearLimit(f)
  \/ FinishUpload
  \/ AfterIteration
  \/ WaitCheckFlag
  \/ WaitCheckFile
  \/ WaitSleep
  \/ AfterWait
  \/ Cleanup
  \/ SetShutdownFlag
  \/ CreateShutdownFile
  \/ IterationError
  \/ StatusReceive
  \/ \E f \in Files : StabilizeSleep(f)
  \/ \E f \in Files : StabilizeEmit(f)
  \/ StabilizeCollect

SpecCtl == InitCtl /\ [][NextCtl]_vars

\* the controller's thread and the pool's threads keep running
CtlStep ==
  \/ LoopTop \/ AfterIteration \/ WaitCheckFlag \/ WaitCheckFile \/ WaitSleep \/ AfterWait \/ Cleanup

SpecCtlFair == InitCtl /\ [][NextCtl]_vars /\ WF_vars(CtlStep)

\* every step of the engine itself: the FTP operations and the sleeps return
EngineStep ==
  \/ CtlStep
  \/ \E d, l \in BOOLEAN : Startup(d, l)
  \/ \E o \in {NoError} \cup EngineErrors : ScanConnect(o)
  \/ \E o \in {NoError} \cup EngineErrors : ScanLogin(o)
  \/ ScanLocal
  \/ \E f \in Files : StabilizeSleep(f) \/ StabilizeEmit(f)
  \/ StabilizeCollect
  \/ \E f \in Files : WorkerStart(f) \/ WorkerConnect(f, NoError, NoError)
  \/ \E f \in Files, r \in {"size_some", "size_err"} : WorkerPrepare(f, r)
  \/ \E f \in Files : WorkerUpload(f, "ok", NoError)
  \/ \E f \in Files, moved \in BOOLEAN : WorkerMove(f, moved)
  \/ \E f \in Files : WorkerSuccessResetCount(f) \/ WorkerSuccessClearLimit(f)
  \/ StatusReceive
  \/ FinishUpload

SpecEngineFair == InitCtl /\ [][NextCtl]_vars /\ WF_vars(EngineStep)

(***************************************************************************)
(* Properties of the ConnectionManager                                     *)
(***************************************************************************)
LastClass == ErrorClass[cmLog.last.msg]
Called == cmLog.last.n >= 1
FastMode == sync_interval < 5000

\* the bases and caps as documented
DocumentedBase(class, fast) ==
  IF fast THEN (IF class = "rejection" THEN 2 ELSE 1)
  ELSE (IF class = "rejection" THEN 30 ELSE IF class = "network" THEN 5 ELSE 10)
DocumentedCap(fast) == IF fast THEN Max(sync_interval, 5000) \div 1000 ELSE 300

\* 8 * base * 1.5^min(n-1,3), an integer
FastDelayTimes8(class, n) ==
  LET k == Min(n - 1, 3) IN (8 * DocumentedBase(class, TRUE) * (3 ^ k)) \div (2 ^ k)

\* C5: in fast mode the n-th consecutive failure returns base * 1.5^min(n-1,3)
\* seconds plus a jitter of at most a quarter of it, clamped to max(sync_interval, 5 s)
\* (2 s, 3 s, 4.5 s before jitter for three "421" failures at sync_interval = 3).
C5_FastModeDelay ==
  (Called /\ FastMode) =>
     LET e8 == FastDelayTimes8(LastClass, cmLog.last.n)
         cap == DocumentedCap(TRUE)
     IN /\ 8 * cmLog.last.delay >= Min(8 * cap, e8)
        /\ 32 * cmLog.last.delay <= Min(32 * cap, 5 * e8)

\* base * 2^min(n-1,6)
NormalDelay(class, n) == DocumentedBase(class, FALSE) * (2 ^ Min(n - 1, 6))

\* C6: in normal mode the n-th consecutive failure returns d with
\* min(300, E) <= d <= min(300, E + E/4), E = base * 2^min(n-1,6), base 30 / 5 / 10;
\* in either mode the delay never exceeds the mode's cap.
C6_NormalModeDelay ==
  Called =>
     /\ cmLog.last.delay <= DocumentedCap(FastMode)
     /\ ~FastMode =>
          LET e == NormalDelay(LastClass, cmLog.last.n)
          IN /\ cmLog.last.delay >= Min(300, e)
             /\ 4 * cmLog.last.delay <= Min(1200, 5 * e)

\* a third rejection in normal mode returned with the largest jitter
C6_Witness ==
  /\ ~FastMode /\ cmLog.last.n = 3 /\ LastClass = "rejection" /\ cmLog.last.delay = 149

\* C7: consecutive failures of one class under one sync_interval return
\* non-decreasing delays for every jitter, and once the cap is returned the
\* delay stays at the cap.
C7_BackoffMonotone ==
  (cmLog.last.n >= 2 /\ cmLog.prev.class = LastClass) =>
     /\ cmLog.last.delay >= cmLog.prev.delay
     /\ cmLog.prev.delay = DocumentedCap(FastMode) => cmLog.last.delay = DocumentedCap(FastMode)

\* a later failure of the same class with a strictly larger delay
C7_Witness ==
  /\ cmLog.last.n >= 2 /\ cmLog.prev.class = LastClass
  /\ cmLog.last.delay > cmLog.prev.delay

\* C8: record_failure reports a rejection, and sets server_limit_detected, exactly
\* when the text contains a rejection signal in any letter case (also when a
\* network signal is present too); it uses the network base for a network signal
\* without rejection signal and the generic base otherwise; a failure that is
\* not a rejection leaves server_limit_detected as it was.
C8_Classification ==
  Called =>
     /\ cmLog.last.rejection = (LastClass = "rejection")
     /\ cmLog.last.base = DocumentedBase(LastClass, FastMode)
     /\ cmLog.event = "failure_return" => server_limit_detected
     /\ (cmLog.event = "failure" /\ LastClass # "rejection") =>
           server_limit_detected = cmLog.last.limit_before

\* a rejection written with capitals, found although a network signal was absent
C8_Witness ==
  /\ cmLog.event = "failure_return" /\ cmLog.last.msg = PrefixConnectionFailed \o ErrRefused
  /\ ~cmLog.last.limit_before /\ server_limit_detected

\* C9: failure_count() equals the number of record_failure calls since the last
\* record_success, whichever thread made them, and when a record_success that no
\* record_failure overlapped returns, failure_count() = 0 and
\* should_reduce_connections() = false.
C9_FailureCount ==
  /\ failed_attempts = cmLog.n
  /\ cmLog.event = "success_return" => (failed_attempts = 0 /\ ~server_limit_detected)

\* two threads have each counted a failure and a record_success then reset both
C9_Witness ==
  /\ cmLog.event = "success_return" /\ cmLog.last.n >= 2 /\ cmLog.last.limit_before

\* ---------------------------------------------------------------------------
\* Properties of the engine

\* FTP sessions this instance holds open
OpenConnections == (IF scanConn THEN 1 ELSE 0) + Cardinality({f \in Files : fconn[f]})

\* C1: during the upload phase of an iteration the open FTP sessions (the
\* scanning session plus the workers' sessions) number at most the pool size
\* of that iteration
C1_WorkerCap == pc = "upload" => OpenConnections <= pool_size

\* C2: a file is under FTPU-Sent only if a STOR of it has succeeded, and every
\* file is at exactly one of its original location and FTPU-Sent, in
\* particular once its worker has finished
C2_MoveAfterStor ==
  \A f \in Files :
    /\ f \in sentFiles => f \in storOk \cup hist.uploaded_earlier
    /\ fpc[f] = "move" => f \in storOk
    /\ (f \in srcFiles) # (f \in sentFiles)
    /\ (Finished(f) /\ f \notin storOk) => f \in srcFiles

\* a worker finished a file it moved while the worker of another file, whose
\* STOR succeeded too, finished with the file left in place
C2_Witness ==
  \E f, g \in Files :
    /\ fpc[f] = "done_ok" /\ f \in sentFiles /\ f \in storOk
    /\ fpc[g] = "done_ok" /\ g \in srcFiles /\ g \in storOk

\* C3: a worker makes at most max_connection_retries attempts for a file, each
\* with one connect and at most one STOR; it goes back to connect only with
\* fewer than max_connection_retries attempts made; a file given up after
\* failed attempts has had max_connection_retries of them and is not counted
\* in the files_processed of the result
C3_RetryBound ==
  /\ \A f \in Files :
       /\ attempt[f] <= max_connection_retries
       /\ flog[f].conns <= max_connection_retries
       /\ flog[f].stors <= max_connection_retries
       /\ flog[f].stors <= attempt[f]
       /\ flog[f].conns = attempt[f]
       /\ fpc[f] = "connect" => (attempt[f] < max_connection_retries /\ flog[f].fails = attempt[f])
       /\ (fpc[f] = "done_err" /\ attempt[f] > 0 /\ flog[f].fails = attempt[f])
            => attempt[f] = max_connection_retries
       /\ flog[f].fails = max_connection_retries => fpc[f] \in {"rf_store", "done_err"}
  /\ hist.given_up # {} =>
       /\ result.written /\ result.success
       /\ result.files_processed + Cardinality(hist.given_up) <= Cardinality(Files)

\* a file was given up after three attempts that each ended in a failed STOR
C3_Witness ==
  \E f \in Files : /\ fpc[f] = "done_err"
                   /\ attempt[f] = max_connection_retries
                   /\ flog[f].stors = max_connection_retries
                   /\ flog[f].fails = max_connection_retries

\* C4: an upload phase that starts after a server rejection set
\* server_limit_detected, with no upload phase in between, has a pool of
\* max(1, upload_aggressiveness / 4) threads
C4_ReducedPool == (pc = "upload" /\ hist.at_phase) => pool_size = Max(1, upload_aggressiveness \div 4)

\* C10: a file whose upload completed in an earlier iteration and that is a
\* candidate again gets no STOR and finishes as "Skipped (unchanged)"
C10_Idempotent ==
  \A f \in hist.uploaded_earlier :
    fpc[f] # "none" => /\ flog[f].stors = 0
                       /\ Finished(f) => flog[f].outcome = "Skipped (unchanged)"

\* C11: a file whose upload completed has a record in the hash database under
\* this configuration's key
C11_HashRecorded ==
  \A f \in Files : flog[f].outcome = "Complete" => \E r \in db : r.config = config_id /\ r.file = f

\* C12: every row the engine puts into the hash database is stored under
\* config_id, so that load_hashes_for_config(config_id) of a later run finds it
C12_KeyedByConfig ==
  /\ \A r \in db : r.config = config_id
  /\ \A r \in db : r.file \in load_hashes_for_config(config_id)

\* C14: an iteration with iteration mod 3 = 1 whose scanning session connected
\* has sent one monitor_warning notification by the time it ends
C14_MonitorSampled ==
  (pc = "after_iter" /\ result.written /\ result.success /\ iteration % 3 = 1) => monitor_warnings = 1

\* C18: cleanup_all_monitor_files has been called exactly once when
\* run_ftp_with_args has returned, and not before the loop is left
C18_CleanupOnce ==
  /\ pc = "exited" => hist.cleanups = 1
  /\ pc # "exited" => hist.cleanups = 0

\* the run returned from inside the interval wait, after an iteration
C18_Witness == pc = "exited" /\ hist.cleanups = 1 /\ hist.wait_signal /\ iteration = 1 /\ shutdown_flag

\* C19: with sync_interval <= 0 the controller runs one iteration (none if a
\* signal is set when the loop is first entered), never waits, and exits
C19_OneShot ==
  sync_interval <= 0 =>
    /\ iteration <= 1
    /\ hist.waits = 0
    /\ pc \notin WaitPositions \cup { "after_wait" }
    /\ pc = "after_iter" => iteration = 1
    /\ pc \in { "cleanup", "exited" } => iteration = (IF hist.signal_at_start THEN 0 ELSE 1)

\* a one-shot run has exited after its single iteration failed to connect
C19_Witness ==
  /\ sync_interval <= 0 /\ pc = "exited" /\ iteration = 1
  /\ result.written /\ ~result.success

\* a signal that arrives during the interval wait is followed by at most one
\* start of a sleep quantum and by no further iteration, and the run has
\* cleaned up when it has returned
ShutdownInWaitSafe ==
  hist.wait_signal =>
    /\ hist.sleeps_after_signal <= 1
    /\ iteration = hist.signal_iteration
    /\ pc \in WaitPositions \cup { "after_wait", "loop_top", "cleanup", "exited" }
    /\ pc = "exited" => hist.cleanups = 1

\* C20: a shutdown flag or sentinel that arrives during the interval wait lets
\* at most one more sleep quantum start, no further iteration is started, and
\* the controller cleans up and returns
C20_ShutdownInWait == [](ShutdownInWaitSafe) /\ (hist.wait_signal ~> pc = "exited")

\* the flag was set between the two looks of the wait loop: one more quantum
\* was slept before the run cleaned up and returned
C20_Witness == hist.wait_signal /\ hist.sleeps_after_signal = 1 /\ pc = "exited" /\ hist.cleanups = 1

\* ---------------------------------------------------------------------------
\* Properties of the monitor file operations

IsOwnEntry(e) == e.hostname = OwnHostname /\ e.profile_name = OwnProfile
EqualIgnoringCase(a, b) == Len(a) = Len(b) /\ \A i \in 1..Len(a) : SameLetter(a[i], b[i])
\* the entries of other instances with the mode, counted by position
OthersInMode(monitors, mode) ==
  Cardinality({ i \in 1..Len(monitors) : ~IsOwnEntry(monitors[i])
                                         /\ EqualIgnoringCase(monitors[i].mode, mode) })
ExpectedConflict(monitors, current_mode) ==
  LET deletes == OthersInMode(monitors, ModeDelete)
      keeps == OthersInMode(monitors, ModeKeep)
  IN IF deletes >= 2 THEN "critical"
     ELSE IF \/ deletes >= 1 /\ EqualIgnoringCase(current_mode, ModeKeep)
             \/ keeps >= 1 /\ EqualIgnoringCase(current_mode, ModeDelete) THEN "warning"
     ELSE IF keeps >= 1 /\ EqualIgnoringCase(current_mode, ModeKeep) THEN "info"
     ELSE "none"

C15_NoStaleEntries ==
  (mon_log.op = "write" /\ mon_log.sent = "put") =>
    \A i \in 1..Len(mon_log.doc) :
      /\ mon_log.doc[i].last_seen.valid
      /\ mon_log.doc[i].last_seen.minute - mon_log.doc[i].last_seen.offset > mon_now - StaleAfter

\* a document with an entry of another instance in the window and entries
\* outside it or without timestamp was read, and two entries were uploaded
C15_Witness ==
  /\ mon_log.op = "write" /\ mon_log.sent = "put" /\ mon_log.read
  /\ Len(mon_log.input) = 3 /\ Len(mon_log.doc) = 2
  /\ \E i \in 1..3 : ~mon_log.input[i].last_seen.valid
  /\ \E i \in 1..3 : mon_log.input[i].last_seen = Rfc3339(WriteTime, 60)

\* C16: the document write_monitor_file uploads holds exactly one entry with
\* this instance's key, and that entry carries the write time
C16_OneOwnEntry ==
  (mon_log.op = "write" /\ mon_log.sent = "put") =>
    /\ Cardinality({ i \in 1..Len(mon_log.doc) : IsOwnEntry(mon_log.doc[i]) }) = 1
    /\ \A i \in 1..Len(mon_log.doc) :
         IsOwnEntry(mon_log.doc[i]) => mon_log.doc[i].last_seen = to_rfc3339(mon_now)

\* the entries of other instances, in the order of the document
OtherEntries(monitors) ==
  LET RECURSIVE others(_)
      others(k) == IF k = 0 THEN <<>>
                   ELSE IF IsOwnEntry(monitors[k]) THEN others(k - 1)
                   ELSE Append(others(k - 1), monitors[k])
  IN others(Len(monitors))

\* C17: cleanup_monitor_file never returns Err; without a readable document
\* or without an own entry in it nothing is sent; otherwise the file is
\* deleted when only own entries were in it and else the other entries are
\* uploaded unchanged; the server's file changes only by a step that worked
C17_Cleanup ==
  mon_log.op = "cleanup" =>
    LET had_own == \E i \in 1..Len(mon_log.input) : IsOwnEntry(mon_log.input[i])
        others == OtherEntries(mon_log.input)
    IN /\ mon_log.result \in { "Ok(true)", "Ok(false)" }
       /\ (~mon_log.read \/ ~had_own) =>
            (mon_log.sent = "none" /\ mon_doc = mon_log.before /\ mon_log.result = "Ok(true)")
       /\ mon_log.sent = "rm" => (mon_log.read /\ had_own /\ others = <<>>)
       /\ mon_log.sent = "put" => (mon_log.read /\ had_own /\ others # <<>> /\ mon_log.doc = others)
       /\ (mon_log.read /\ had_own /\ mon_log.result = "Ok(true)") =>
            mon_doc = (IF others = <<>> THEN AbsentDoc ELSE ServerDoc(others))
       /\ mon_log.result = "Ok(false)" => mon_doc = mon_log.before

\* the own entry was removed and the entries of two other instances, one of
\* them on this host, were uploaded again
C17_Witness ==
  /\ mon_log.op = "cleanup" /\ mon_log.sent = "put" /\ mon_log.result = "Ok(true)"
  /\ Len(mon_log.input) = 3 /\ Len(mon_doc.monitors) = 2
  /\ \E i \in 1..2 : mon_doc.monitors[i].hostname = OwnHostname
  /\ \E i \in 1..2 : mon_doc.monitors[i].hostname = OtherHostname

\* C28: the document cleanup_monitor_file uploads holds no entry whose
\* last_seen is five minutes old or older, or is no timestamp
C28_CleanupPurgesStale ==
  (mon_log.op = "cleanup" /\ mon_log.sent = "put") =>
    \A i \in 1..Len(mon_log.doc) :
      /\ mon_log.doc[i].last_seen.valid
      /\ mon_log.doc[i].last_seen.minute - mon_log.doc[i].last_seen.offset > mon_now - StaleAfter

(***************************************************************************)
(* Cancellation, the main loop and the status stages                       *)
(***************************************************************************)
\* C21: a file whose task found the shutdown flag set or the sentinel file
\* present at its start gets no connection and no STOR
C21_PolledBeforeFile ==
  \A f \in hist.signalled_start : flog[f].conns = 0 /\ flog[f].stors = 0

\* C22: the loop is left only in a one-shot run after its one iteration or
\* under a shutdown flag or sentinel; every iteration that failed has
\* written the result file, a failed connect or login has been counted, and
\* the controller goes on to the wait and the next iteration
C22_LoopContinues ==
  /\ (pc \in {"cleanup", "exited"} /\ ~shutdown_flag /\ ~shutdown_file) =>
       (sync_interval <= 0 /\ iteration = 1)
  /\ (pc \in {"after_iter", "after_wait"} \cup WaitPositions) =>
       /\ result.written /\ result.iteration = iteration
       /\ ~result.success => failed_attempts >= 1

\* the temp and system patterns: *.filepart, ._*, Thumbs.db, .DS_Store,
\* .Trash*, desktop.ini, ~$*, *.tmp, *.temp
temp_pattern(filename) ==
  \/ ends_with(filename, <<".","f","i","l","e","p","a","r","t">>)
  \/ starts_with(filename, <<".","_">>)
  \/ filename = Name_Thumbs
  \/ filename = <<".","D","S","_","S","t","o","r","e">>
  \/ starts_with(filename, <<".","T","r","a","s","h">>)
  \/ filename = Name_desktop_ini
  \/ starts_with(filename, <<"~","$">>)
  \/ ends_with(filename, <<".","t","m","p">>)
  \/ ends_with(filename, <<".","t","e","m","p">>)
\* the path has a hidden name, lies under FTPU-Sent or matches a pattern
excluded(path) ==
  \/ \E i \in 1..Len(path) : starts_with(path[i], <<".">>)
  \/ \E i \in 1..(Len(path) - 1) : path[i] = Name_FTPU_Sent
  \/ temp_pattern(path[Len(path)])

\* C24: a scan yields no hidden entry, nothing under FTPU-Sent and no file
\* matching a temp or system pattern, and every other regular file once
C24_ScannerFilter ==
  (scan_files.done /\ ~scan_files.signalled) =>
    \A path \in TreePaths :
      CopiesIn(path, scan_files.files) = IF path \in scan_tree /\ ~excluded(path) THEN 1 ELSE 0

(***************************************************************************)
(* Properties of the FFI session registry                                  *)
(***************************************************************************)
\* C23: rust_ftp_stop for a registered session sets that session's flag,
\* removes its entry, returns 0 and leaves every engine thread as it was; for
\* an id without entry it returns -3 and changes nothing
C23_StopDoesNotJoin ==
  ffi_log.op = "stop" =>
    LET t == ffi_log.before.SESSIONS[ffi_log.id] IN
      IF t # NoEntry
      THEN /\ ffi_log.ret = 0
           /\ ffi_log.after.shutdown_signal = [ffi_log.before.shutdown_signal EXCEPT ![t] = TRUE]
           /\ ffi_log.after.SESSIONS = [ffi_log.before.SESSIONS EXCEPT ![ffi_log.id] = NoEntry]
           /\ ffi_log.after.thread_state = ffi_log.before.thread_state
      ELSE /\ ffi_log.ret = -3
           /\ ffi_log.after = ffi_log.before

\* a stop has returned 0 while the session's engine thread was running and
\* another session stayed registered
C23_Witness ==
  /\ ffi_log.op = "stop" /\ ffi_log.ret = 0
  /\ ffi_log.after.thread_state[ffi_log.thread] = "running"
  /\ \E s \in SessionIds : ffi_log.after.SESSIONS[s] # NoEntry

\* C27: when the scanning session's connection fails, a warning notification
\* is sent exactly if this is the second or a later failure in the run of
\* consecutive failures of the scanning session to connect and log in: the
\* first failure after a session that was established sends none.
C27_WarningOnSecond ==
  (pc = "after_iter" /\ warnings.failed) =>
     warnings.sent = IF warnings.run >= 2 THEN 1 ELSE 0

\* C29: when an iteration is over, every stage it wrote came after its
\* predecessor in Connecting, Connected, Scanning, Preparing, Processing,
\* Finished; an iteration that connected and logged in has written Finished;
\* and the receiver thread wrote no worker update after Finished.
C29_StagesInOrder ==
  pc = "after_iter" =>
     /\ status.in_order
     /\ "Connected" \in status.seen => "Finished" \in status.seen
     /\ ~status.late

\* C25: the session state is cumulative over the process run: when an
\* iteration is over, the total_files of the session file is the number of
\* files uploaded since the process started.
C25_CumulativeSession ==
  (pc = "after_iter" /\ session_file.written) => session_file.total_files = hist.uploads

\* C26: each successful upload adds the uploaded file's size to total_bytes:
\* the session state's total_bytes is the sum of the local sizes of the files
\* uploaded in this run of process_files (10 after the one upload of the
\* 10-byte file a/b.txt to an empty destination).
C26_BytesOfUploads ==
  session_state.total_bytes = hist.phase_bytes

\* C30: with stabilization_interval > 0 the files handed to the upload pool
\* are exactly the candidates of the scan, each of which went through the
\* stabilization sleep once, and no worker has opened a connection before
\* every candidate was stabilized; with stabilization_interval = 0 there is
\* no stabilization phase and the candidates go to the upload pool directly.
C30_StabilizeOnce ==
  /\ \A f \in Files : flog[f].stabilized <= 1
  /\ (stabilization_interval > 0 /\ pc = "upload") =>
        \A f \in Files : /\ f \in hist.candidates <=> fpc[f] # "none"
                         /\ f \in hist.candidates => flog[f].stabilized = 1
  /\ (stabilization_interval > 0 /\ \E f \in Files : fconn[f] \/ flog[f].conns > 0) =>
        \A g \in hist.candidates : flog[g].stabilized = 1
  /\ stabilization_interval = 0 =>
        /\ pc # "stabilize"
        /\ \A f \in Files : flog[f].stabilized = 0
        /\ pc = "upload" => \A f \in Files : f \in hist.candidates <=> fpc[f] # "none"

\* two candidates were stabilized and a worker has connected for one of them
C30_Witness ==
  /\ stabilization_interval > 0
  /\ pc = "upload"
  /\ Cardinality(hist.candidates) = 2
  /\ \A f \in hist.candidates : flog[f].stabilized = 1
  /\ \E f \in Files : fconn[f]

(***************************************************************************)
(* The remote SIZE, the counters and the end of the run                    *)
(***************************************************************************)
\* C31: a worker goes on to the upload after SIZE returned a size and after
\* SIZE failed (then without a size); after the answer "no such file" the
\* task ends with Ok at once: no STOR follows, the local file stays where it
\* is and no failure is recorded.
C31_SizeOutcomes ==
  /\ [](\A f \in Files :
         /\ fpc[f] = "upload" => /\ flog[f].size \in {"numeric", "failed"}
                                 /\ flog[f].size = "numeric" <=> initial_size[f] # NoSize
         /\ flog[f].size = "no such file" => fpc[f] = "done_ok")
  /\ [][\A f \in Files :
          (fpc[f] = "prepare" /\ flog'[f].size \in {"numeric", "failed"}) => fpc'[f] = "upload"]_vars
  /\ [][\A f \in Files :
          (fpc[f] = "prepare" /\ flog'[f].size = "no such file") =>
             /\ flog'[f].stors = flog[f].stors
             /\ srcFiles' = srcFiles /\ sentFiles' = sentFiles
             /\ failed_attempts' = failed_attempts
             /\ server_limit_detected' = server_limit_detected]_vars

\* one file was skipped after "no such file" and is still in the source
\* directory, another is about to be uploaded after a failed SIZE
C31_Witness ==
  /\ \E f \in Files : /\ flog[f].size = "no such file" /\ fpc[f] = "done_ok"
                       /\ flog[f].stors = 0 /\ f \in srcFiles
  /\ \E g \in Files : fpc[g] = "upload" /\ flog[g].size = "failed"

\* C32: when every task of the upload phase has returned, the files_processed
\* counter is the number of candidates whose task returned Ok, the number
\* that is then written to the result file.
C32_CounterMatches ==
  (pc = "upload" /\ \A f \in Files : fpc[f] \in {"none", "done_ok", "done_err"}) =>
     files_processed = Cardinality({f \in Files : fpc[f] = "done_ok"})

C34_LimitImpliesFailure ==
  (/\ ~cmLog.interleaved
   /\ \A t \in CMThreads : tpc[t] = "idle"
   /\ server_limit_detected) => failed_attempts >= 1

\* no call is in progress, the counter is 0 and the flag is set: one thread's
\* record_failure stored the flag after another's record_success had cleared it
C34_Witness ==
  /\ \A t \in CMThreads : tpc[t] = "idle"
  /\ failed_attempts = 0 /\ server_limit_detected
  /\ cmLog.interleaved /\ cmLog.event = "failure_return"

HasEntryOf(monitors, j) ==
  \E n \in 1..Len(monitors) : monitors[n].hostname = j /\ monitors[n].profile_name = OwnProfile

\* C35: when two instances clean up and one replaces the file from a copy
\* it read before the other wrote, the file is there after both cleanups
\* and holds every entry of the other instance that the copy held; when
\* neither wrote from such a copy and both read the file and succeeded, no
\* entry of either is left.
C35_LastWriterWins ==
  (\A j \in Instances : peers[j].pc = "done") =>
    /\ \A i \in Instances :
          (peers[i].stale /\ peers[i].sent = "put" /\ peers[i].result = "Ok(true)") =>
             /\ mon_doc.exists /\ mon_doc.parses
             /\ \A j \in Instances \ {i} :
                   HasEntryOf(peers[i].copy, j) => HasEntryOf(mon_doc.monitors, j)
    /\ (\A i \in Instances : ~peers[i].stale /\ peers[i].read /\ peers[i].result = "Ok(true)") =>
          (mon_doc.exists => \A j \in Instances : ~HasEntryOf(mon_doc.monitors, j))

\* both cleanups returned Ok(true), each after a STOR; the file holds the
\* entry of the instance that wrote first
C35_Witness ==
  /\ \A j \in Instances : peers[j].pc = "done" /\ peers[j].result = "Ok(true)" /\ peers[j].sent = "put"
  /\ peers[OtherHostname].stale /\ ~peers[OwnHostname].stale
  /\ mon_doc.exists /\ HasEntryOf(mon_doc.monitors, OwnHostname)

\* engine threads whose handle the registry holds
HeldThreads == { SESSIONS[s] : s \in SessionIds } \ { NoEntry }
\* a spawned thread with no handle in the registry and its flag not set
Orphaned(t) == thread_state[t] # "unborn" /\ t \notin HeldThreads /\ ~shutdown_signal[t]

\* C36: a rust_ftp_start under an id that has an entry replaces the handle
\* and leaves the flag of the replaced one as it is; the flag of a thread
\* without a handle is never set afterwards and no FFI call ends the thread.
C36_ReplacedHandleUnreachable ==
  /\ [][\A id \in SessionIds :
          (SESSIONS[id] # NoEntry /\ SESSIONS'[id] \notin {NoEntry, SESSIONS[id]}) =>
             /\ shutdown_signal'[SESSIONS[id]] = shutdown_signal[SESSIONS[id]]
             /\ thread_state'[SESSIONS[id]] = thread_state[SESSIONS[id]]]_vars
  /\ [][\A t \in EngineThreads :
          Orphaned(t) => /\ ~shutdown_signal'[t]
                         /\ t \notin { SESSIONS'[s] : s \in SessionIds }
                         /\ (ffi_log' # ffi_log => thread_state'[t] = thread_state[t])]_vars

\* rust_ftp_shutdown has returned and the first engine thread, whose handle
\* a second start replaced, is running with its flag not set
C36_Witness ==
  /\ ffi_log.op = "shutdown"
  /\ thread_state[1] = "running" /\ ~shutdown_signal[1]
  /\ thread_state[2] = "exited" /\ shutdown_signal[2]
  /\ HeldThreads = {}

\* the task of f returned Err at the CWD
CwdFailed(f) == flog[f].outcome = "Failed to change to directory"

\* C39: a CWD that fails in an upload worker ends the file's task at once:
\* no further attempt, no record_failure or record_success, no STOR, the
\* local file stays in the source directory, and the iteration's result is
\* still written with success = true.
C39_CwdFailure ==
  /\ [][\A f \in Files :
          (fpc[f] = "prepare" /\ CwdFailed(f)') =>
             /\ fpc'[f] = "done_err" /\ ~fconn'[f]
             /\ failed_attempts' = failed_attempts
             /\ server_limit_detected' = server_limit_detected
             /\ last_failure_time' = last_failure_time
             /\ attempt'[f] = attempt[f] /\ flog'[f].stors = flog[f].stors
             /\ flog'[f].fails = flog[f].fails]_vars
  /\ [][\A f \in Files :
          CwdFailed(f) => /\ fpc'[f] \in {"done_err", "none"}
                          /\ flog'[f].stors = flog[f].stors \/ pc' = "after_iter"
                          /\ f \in srcFiles' /\ f \notin sentFiles']_vars
  /\ [][(pc = "upload" /\ pc' = "after_iter" /\ \E f \in Files : CwdFailed(f)) =>
          (result'.success /\ result'.written /\ result'.iteration = iteration)]_vars

\* every task of the iteration has returned, one of them at the CWD of its
\* first attempt: the counter of failures is 0 and the file is where it was
C39_Witness ==
  /\ pc = "upload" /\ \A g \in Files : fpc[g] \in {"done_ok", "done_err"}
  /\ \E f \in Files : /\ CwdFailed(f) /\ fpc[f] = "done_err" /\ flog[f].stors = 0
                       /\ flog[f].fails = 0 /\ f \in srcFiles
  /\ failed_attempts = 0

PutOk == { n \in 1..Len(put_log) : put_log[n].result = "Ok" }

\* C37: without respect_file_paths two candidates with one basename are
\* STORed under one remote name, which holds the later of them, and each
\* is moved to FTPU-Sent like any other file; with respect_file_paths the
\* remote names of distinct candidates differ and no STOR replaces another.
C37_RemoteNames ==
  /\ \A n \in RemoteNames :
        remote_files[n] # NoFile =>
          \E k \in PutOk : /\ put_log[k].remote = n /\ put_log[k].path = remote_files[n]
                            /\ \A j \in PutOk : put_log[j].remote = n => j <= k
  /\ ~respect_file_paths =>
        \A i, j \in 1..Len(put_log) :
          file_name(put_log[i].path) = file_name(put_log[j].path) =>
             /\ put_log[i].remote = put_log[j].remote
             /\ (i < j /\ i \in PutOk /\ j \in PutOk) => remote_files[put_log[i].remote] = put_log[j].path
  /\ respect_file_paths =>
        /\ \A i, j \in 1..Len(put_log) : i # j => put_log[i].remote # put_log[j].remote
        /\ \A i \in PutOk : remote_files[put_log[i].remote] = put_log[i].path
  /\ sent_paths \subseteq { put_log[k].path : k \in PutOk }

\* b.txt and a/b.txt were both uploaded and moved; the remote b.txt is the
\* one uploaded second
C37_Witness ==
  /\ ~respect_file_paths
  /\ \E i, j \in PutOk :
        /\ i < j /\ file_name(put_log[i].path) = file_name(put_log[j].path)
        /\ { put_log[i].path, put_log[j].path } \subseteq sent_paths
        /\ remote_files[put_log[i].remote] = put_log[j].path
        /\ Cardinality({ n \in RemoteNames : remote_files[n] # NoFile }) = 1

====
